---- MODULE Spec2Model ----
(***************************************************************************)
(* Verification model of the command-line calculator:                      *)
(*   - Precision Context and Constants Registry (core/precision.c,         *)
(*     core/constants.c)                                                   *)
(*   - Evaluator and Function Dispatch (core/evaluator.c, core/functions.c)*)
(*   - Lexer (lexer/lexer.c, lexer/function_table.c)                       *)
(*   - Parser (parser/parser.c)                                            *)
(*   - Symbolic Simplifier (core/symbolic.c) over an explicit node heap    *)
(***************************************************************************)
EXTENDS Integers, Sequences, FiniteSets, TLC

VARIABLES
    global_precision,   \* precision.c: mpfr_prec_t global_precision
    cached_constants,   \* constants.c: static CachedConstant cached_constants[CONST_COUNT]
    fetched,            \* history: constants fetched since the precision last changed / the cache was cleared
    prec_changed,       \* history: the last registry step was a set_precision that changed the precision
    const_steps,        \* history: number of registry/precision operations performed
    strict_mode,        \* evaluator.c: static int strict_mode
    strict_domain_mode, \* functions.c: static int strict_domain_mode
    ev_last_error,      \* evaluator.c: static char last_error[256]
    fn_last_error,      \* functions.c: static char last_error[256]
    ev_queue,           \* the trees the host will hand to evaluator_eval, in order
    ev_node,            \* history: the tree of the last top-level evaluator_eval call
    ev_result,          \* the value the last top-level call stored in result
    ev_raised,          \* history: a node of the last call wrote an evaluator error message
    ev_fn_failed,       \* history: a functions_eval call of the last call failed
    ev_calls,           \* history: number of top-level calls made
    parser,             \* struct Parser, with the token sequence its lexer produces
    parse_result,       \* the ASTNode * the top-level parser_parse_expression returned
    parse_calls,        \* history: number of top-level parse calls made
    lexer,              \* struct Lexer: text, pos, current_char, input_length
    lex_tokens,         \* history: the tokens lexer_get_next_token has returned, in order
    sym_tree,           \* the tree x the host simplifies
    sym_m,              \* the machine (heap, error buffer) after the last symbolic_eval
    sym_last,           \* history: the last top-level call: which, its argument, the
                        \* addresses of argument and result, the heap size before it
    sym_results,        \* history: simplify(x), simplify(simplify(x)), simplify(x swapped)
    rat,                \* the Rational objects of a host of rational.c, by name
    rat_last,           \* history: the last call, the object it stored into and the
                        \* members it computed before rational_simplify
    rat_steps           \* history: number of calls made

constVars == <<global_precision, cached_constants, fetched, prec_changed, const_steps>>

evalVars == <<strict_mode, strict_domain_mode, ev_last_error, fn_last_error, ev_queue,
              ev_node, ev_result, ev_raised, ev_fn_failed, ev_calls>>

parseVars == <<parser, parse_result, parse_calls>>

lexVars == <<lexer, lex_tokens>>

symVars == <<sym_tree, sym_m, sym_last, sym_results>>

ratVars == <<rat, rat_last, rat_steps>>

notConstVars == <<evalVars, parseVars, lexVars, symVars, ratVars>>
notEvalVars == <<constVars, parseVars, lexVars, symVars, ratVars>>
notParseVars == <<constVars, evalVars, lexVars, symVars, ratVars>>
notSymVars == <<constVars, evalVars, parseVars, lexVars, ratVars>>
notLexVars == <<constVars, evalVars, symVars, ratVars>>
notRatVars == <<constVars, evalVars, parseVars, lexVars, symVars>>

vars == <<constVars, evalVars, parseVars, lexVars, symVars, ratVars>>

----------------------------------------------------------------------------
(* Precision Context                                                        *)

DEFAULT_PRECISION == 256
MIN_PRECISION == 2
MAX_PRECISION == 8192

\* number of registry / precision operations explored in one behaviour
MaxConstSteps == 4

\* precisions requested by the host: below, inside and above the valid range
PrecRequests ==
    {MIN_PRECISION - 1, MIN_PRECISION, 64, DEFAULT_PRECISION, MAX_PRECISION, MAX_PRECISION + 1}

\* a clamp that forgets the upper limit
ClampPrecision_NoUpper(prec) == IF prec < MIN_PRECISION THEN MIN_PRECISION ELSE prec

\* set_precision: the clamped value that becomes global_precision
ClampPrecision(prec) ==
    LET p1 == IF prec < MIN_PRECISION THEN MIN_PRECISION ELSE prec
    IN  IF p1 > MAX_PRECISION THEN MAX_PRECISION ELSE p1

----------------------------------------------------------------------------
(* Constants Registry                                                       *)

\* enum ConstantType, in declaration order
ConstantType == {"CONST_PI", "CONST_E", "CONST_LN2", "CONST_LN10", "CONST_GAMMA", "CONST_SQRT2"}

\* constant_metadata[type].name
constant_metadata ==
    [CONST_PI |-> "pi", CONST_E |-> "e", CONST_LN2 |-> "ln2",
     CONST_LN10 |-> "ln10", CONST_GAMMA |-> "gamma", CONST_SQRT2 |-> "sqrt2"]

\* names handed to the string API; "tau" is not a registry constant
ConstantNames == {constant_metadata[t] : t \in ConstantType} \cup {"tau"}

\* static CachedConstant cached_constants[CONST_COUNT] = {0}
ZeroCachedConstant == [precision |-> 0, is_initialized |-> 0]

\* mutation: the initialised flag is tested inverted and the precision tag ignored
constants_is_cached_by_type_Inverted(type) ==
    /\ type \in ConstantType
    /\ cached_constants[type].is_initialized = 0

constants_is_cached_by_type(type) ==
    /\ type \in ConstantType
    /\ cached_constants[type].is_initialized # 0
    /\ cached_constants[type].precision = global_precision

\* string API: strcmp lookup in the metadata table, then the enum API
constants_is_cached(constant_name) ==
    \E t \in ConstantType :
        /\ constant_metadata[t] = constant_name
        /\ constants_is_cached_by_type(t)

\* constants_get_by_name: found iff the name is in the metadata table
constants_known(constant_name) ==
    \E t \in ConstantType : constant_metadata[t] = constant_name

\* constants_init: every entry is marked uninitialised
constants_init ==
    /\ const_steps < MaxConstSteps
    /\ cached_constants' = [t \in ConstantType |->
                               [cached_constants[t] EXCEPT !.is_initialized = 0]]
    /\ fetched' = {}
    /\ prec_changed' = FALSE
    /\ const_steps' = const_steps + 1
    /\ UNCHANGED notConstVars
    /\ UNCHANGED global_precision

\* constants_get_by_type (reached through constants_get_pi .. constants_get_sqrt2 and
\* constants_get_by_name): computes the value at global_precision + boost and rounds it
\* into the caller's variable; the registry array is neither read nor written
constants_get_by_type(type) ==
    /\ const_steps < MaxConstSteps
    /\ type \in ConstantType
    /\ fetched' = fetched \cup {type}
    /\ prec_changed' = FALSE
    /\ const_steps' = const_steps + 1
    /\ UNCHANGED notConstVars
    /\ UNCHANGED <<global_precision, cached_constants>>

\* clear_cached on every entry
constants_clear_cache ==
    /\ const_steps < MaxConstSteps
    /\ cached_constants' = [t \in ConstantType |->
                               IF cached_constants[t].is_initialized # 0
                               THEN [cached_constants[t] EXCEPT !.is_initialized = 0]
                               ELSE cached_constants[t]]
    /\ fetched' = {}
    /\ prec_changed' = FALSE
    /\ const_steps' = const_steps + 1
    /\ UNCHANGED notConstVars
    /\ UNCHANGED global_precision

\* set_precision(prec): clamp, store; the registry is not touched
set_precision(prec) ==
    /\ const_steps < MaxConstSteps
    /\ global_precision' = ClampPrecision(prec)
    /\ fetched' = IF ClampPrecision(prec) # global_precision THEN {} ELSE fetched
    /\ prec_changed' = (ClampPrecision(prec) # global_precision)
    /\ const_steps' = const_steps + 1
    /\ UNCHANGED notConstVars
    /\ UNCHANGED cached_constants

\* get_precision()
get_precision == global_precision

----------------------------------------------------------------------------
(* Tokens and AST nodes                                                     *)

\* enum TokenType, in declaration order (lexer/tokens.h)
TokenTypes ==
    <<"TOKEN_INT", "TOKEN_FLOAT", "TOKEN_PLUS", "TOKEN_MINUS", "TOKEN_STAR", "TOKEN_SLASH",
      "TOKEN_LPAREN", "TOKEN_RPAREN", "TOKEN_CARET", "TOKEN_EQ", "TOKEN_NEQ", "TOKEN_LT",
      "TOKEN_LTE", "TOKEN_GT", "TOKEN_GTE", "TOKEN_COMMA",
      "TOKEN_SIN", "TOKEN_COS", "TOKEN_TAN", "TOKEN_ASIN", "TOKEN_ACOS", "TOKEN_ATAN",
      "TOKEN_ATAN2", "TOKEN_SINH", "TOKEN_COSH", "TOKEN_TANH", "TOKEN_ASINH", "TOKEN_ACOSH",
      "TOKEN_ATANH", "TOKEN_SQRT", "TOKEN_LOG", "TOKEN_LOG10", "TOKEN_EXP", "TOKEN_ABS",
      "TOKEN_FLOOR", "TOKEN_CEIL", "TOKEN_POW",
      "TOKEN_CONSTANT", "TOKEN_IDENTIFIER", "TOKEN_EOF", "TOKEN_INVALID">>

\* the integer value of a TokenType enumerator
TokenOrd(t) == CHOOSE i \in 1..Len(TokenTypes) : TokenTypes[i] = t

\* enum NodeType, in declaration order (parser/ast.h)
NodeTypes == <<"NODE_NUMBER", "NODE_BINOP", "NODE_UNARY", "NODE_FUNCTION", "NODE_CONSTANT">>

\* the integer value of a NodeType enumerator
NodeTypeOrd(t) == CHOOSE i \in 1..Len(NodeTypes) : NodeTypes[i] = t

token_is_function(type) == TokenOrd(type) >= TokenOrd("TOKEN_SIN") /\ TokenOrd(type) <= TokenOrd("TOKEN_POW")

token_is_constant(type) == type = "TOKEN_CONSTANT"

token_is_unary_op(type) == type \in {"TOKEN_PLUS", "TOKEN_MINUS"}

token_is_comparison_op(type) ==
    type \in {"TOKEN_EQ", "TOKEN_NEQ", "TOKEN_LT", "TOKEN_LTE", "TOKEN_GT", "TOKEN_GTE"}

\* function_table[].arg_count for the function tokens
function_table_get_arg_count(type) ==
    IF type \in {"TOKEN_ATAN2", "TOKEN_POW"} THEN 2
    ELSE IF token_is_function(type) THEN 1
    ELSE 0

----------------------------------------------------------------------------
(* Numbers: an mpfr value is modelled by the exact rational it holds.       *)
(* All values of the model are small rationals, exactly representable at    *)
(* every working precision used, so mpfr rounding leaves them unchanged.    *)

RECURSIVE Gcd(_, _)
Gcd(a, b) == IF b = 0 THEN a ELSE Gcd(b, a % b)

AbsInt(x) == IF x < 0 THEN 0 - x ELSE x

\* the rational n/d in lowest terms with a positive denominator (d # 0)
Rat(n, d) ==
    LET g == Gcd(AbsInt(n), AbsInt(d))
        s == IF d < 0 THEN 0 - 1 ELSE 1
    IN  [n |-> (s * n) \div g, d |-> (s * d) \div g]

RInt(n) == [n |-> n, d |-> 1]
RAdd(a, b) == Rat(a.n * b.d + b.n * a.d, a.d * b.d)
RMul(a, b) == Rat(a.n * b.n, a.d * b.d)
RDiv(a, b) == Rat(a.n * b.d, a.d * b.n)
RNeg(a) == [n |-> 0 - a.n, d |-> a.d]
RAbs(a) == [n |-> AbsInt(a.n), d |-> a.d]
\* mpfr_cmp: negative, zero or positive
RCmp(a, b) ==
    LET l == a.n * b.d
        r == b.n * a.d
    IN  IF l < r THEN 0 - 1 ELSE IF l > r THEN 1 ELSE 0
RIsZero(a) == a.n = 0
\* mpfr_integer_p
RIsInteger(a) == a.d = 1
\* mpfr_sgn
RSgn(a) == IF a.n < 0 THEN 0 - 1 ELSE IF a.n > 0 THEN 1 ELSE 0

\* integer square root: the largest r with r*r <= x (x >= 0)
ISqrt(x) == CHOOSE r \in 0..x : r * r <= x /\ (r + 1) * (r + 1) > x

IsSquare(x) == x >= 0 /\ ISqrt(x) * ISqrt(x) = x

\* floor and ceiling of a rational
RFloor(a) == a.n \div a.d
RCeil(a) == 0 - ((0 - a.n) \div a.d)

\* "%.0Rf": the value printed with no fractional digits, rounded to nearest,
\* ties to even (the default rounding mode MPFR_RNDN)
RoundHalfEven(a) ==
    LET f == RFloor(a)
        twice == 2 * (a.n - f * a.d)
    IN  IF twice < a.d THEN f
        ELSE IF twice > a.d THEN f + 1
        ELSE IF f % 2 = 0 THEN f ELSE f + 1

RECURSIVE IPow(_, _)
IPow(b, e) == IF e = 0 THEN 1 ELSE b * IPow(b, e - 1)

\* the number of significant bits of the integer x > 0
Bits(x) == CHOOSE b \in 1..31 : IPow(2, b - 1) <= x /\ (b = 31 \/ x < IPow(2, b))

\* an integer x >= 0 stored in an mpfr_t of prec bits (MPFR_RNDN: the nearest value
\* of prec significant bits, a tie going to the even significand)
mpfr_set_z(x, prec) ==
    IF x = 0 \/ Bits(x) <= prec THEN x
    ELSE LET u == IPow(2, Bits(x) - prec)
             q == x \div u
             r == x % u
         IN  IF 2 * r > u \/ (2 * r = u /\ q % 2 = 1) THEN (q + 1) * u ELSE q * u

\* mpfr_sqrt(sqrt_val, x, MPFR_RNDN) into prec bits, then mpfr_integer_p(sqrt_val):
\* the rounded root when it is an integer, -1 when it is not. With e the exponent
\* of the root and f = prec - 1 - e fractional bits, a root that is not an integer
\* lies more than 2^-(e+2) from every integer, so that f > e leaves no rounding
\* to an integer; otherwise the root is rounded to a multiple of 2^-f.
mpfr_sqrt_integer(x, prec) ==
    LET e == Bits(ISqrt(x)) - 1
        f == prec - 1 - e
    IN  IF f > e THEN (IF IsSquare(x) THEN ISqrt(x) ELSE 0 - 1)
        ELSE IF f > 0
        THEN LET y == x * IPow(4, f)
                 k == ISqrt(y)
                 rn == IF y > k * k + k THEN k + 1 ELSE k
             IN  IF rn % IPow(2, f) = 0 THEN rn \div IPow(2, f) ELSE 0 - 1
        ELSE LET u == IPow(2, 0 - f)
                 k == ISqrt(x) \div u
                 h == (2 * k + 1) * (2 * k + 1) * u * u
             IN  IF 4 * x > h \/ (4 * x = h /\ k % 2 = 1) THEN (k + 1) * u ELSE k * u

\* ast_create_number / ast_create_constant / ast_create_binop / ast_create_unary /
\* ast_create_function, as tree values
Num(v, is_int) == [type |-> "NODE_NUMBER", value |-> v, is_int |-> is_int]
Const(name) == [type |-> "NODE_CONSTANT", name |-> name]
BinOp(op, l, r) == [type |-> "NODE_BINOP", op |-> op, left |-> l, right |-> r]
Unary(op, x) == [type |-> "NODE_UNARY", op |-> op, operand |-> x]
Func(f, args) == [type |-> "NODE_FUNCTION", func_type |-> f, args |-> args]

----------------------------------------------------------------------------
(* mpfr values: a finite rational, NaN, an infinity, or "irr": a finite      *)
(* value the model does not represent (an irrational function value); an    *)
(* evaluation that meets one is marked inexact and is not an input of the   *)
(* evaluator specification.                                                 *)

\* largest exponent magnitude for which x^y is computed exactly in the model
MaxPowExp == 3

VFin(r) == [k |-> "fin", r |-> r]
VInt(n) == VFin(RInt(n))
VNaN == [k |-> "nan"]
VInf(s) == [k |-> "inf", s |-> s]
VIrr == [k |-> "irr"]

mpfr_zero_p(v) == v.k = "fin" /\ RIsZero(v.r)
VSign(v) == IF v.k = "inf" THEN v.s ELSE RSgn(v.r)

mpfr_neg(a) ==
    CASE a.k = "fin" -> VFin(RNeg(a.r))
      [] a.k = "inf" -> VInf(0 - a.s)
      [] OTHER -> a

mpfr_add(a, b) ==
    CASE a.k = "irr" \/ b.k = "irr" -> VIrr
      [] a.k = "nan" \/ b.k = "nan" -> VNaN
      [] a.k = "inf" /\ b.k = "inf" -> IF a.s = b.s THEN a ELSE VNaN
      [] a.k = "inf" -> a
      [] b.k = "inf" -> b
      [] OTHER -> VFin(RAdd(a.r, b.r))

mpfr_sub(a, b) == mpfr_add(a, mpfr_neg(b))

mpfr_mul(a, b) ==
    CASE a.k = "irr" \/ b.k = "irr" -> VIrr
      [] a.k = "nan" \/ b.k = "nan" -> VNaN
      [] a.k = "inf" \/ b.k = "inf" ->
            IF mpfr_zero_p(a) \/ mpfr_zero_p(b) THEN VNaN ELSE VInf(VSign(a) * VSign(b))
      [] OTHER -> VFin(RMul(a.r, b.r))

\* mpfr_div with a divisor that is not zero (the evaluator tests mpfr_zero_p first)
mpfr_div(a, b) ==
    CASE a.k = "irr" \/ b.k = "irr" -> VIrr
      [] a.k = "nan" \/ b.k = "nan" -> VNaN
      [] a.k = "inf" /\ b.k = "inf" -> VNaN
      [] a.k = "inf" -> VInf(a.s * VSign(b))
      [] b.k = "inf" -> VInt(0)
      [] OTHER -> VFin(RDiv(a.r, b.r))

mpfr_pow(a, b) ==
    CASE a.k = "irr" \/ b.k = "irr" -> VIrr
      [] mpfr_zero_p(b) -> VInt(1)
      [] a.k = "fin" /\ a.r = RInt(1) -> VInt(1)
      [] a.k = "nan" \/ b.k = "nan" -> VNaN
      [] a.k = "inf" \/ b.k = "inf" -> VIrr
      [] RIsInteger(b.r) /\ AbsInt(b.r.n) > MaxPowExp -> VIrr
      [] RIsInteger(b.r) /\ b.r.n > 0 ->
            VFin(Rat(IPow(a.r.n, b.r.n), IPow(a.r.d, b.r.n)))
      [] RIsInteger(b.r) /\ b.r.n < 0 ->
            IF RIsZero(a.r) THEN VInf(1)
            ELSE VFin(Rat(IPow(a.r.d, 0 - b.r.n), IPow(a.r.n, 0 - b.r.n)))
      [] RSgn(a.r) < 0 -> VNaN
      [] RIsZero(a.r) -> IF RSgn(b.r) > 0 THEN VInt(0) ELSE VInf(1)
      [] OTHER -> VIrr

\* the order of two values neither of which is NaN or unrepresented
VCmp(a, b) ==
    CASE a.k = "inf" /\ b.k = "inf" ->
            IF a.s = b.s THEN 0 ELSE a.s
      [] a.k = "inf" -> a.s
      [] b.k = "inf" -> 0 - b.s
      [] OTHER -> RCmp(a.r, b.r)

VUnordered(a, b) == a.k = "nan" \/ b.k = "nan"
mpfr_equal_p(a, b) == ~VUnordered(a, b) /\ VCmp(a, b) = 0
mpfr_less_p(a, b) == ~VUnordered(a, b) /\ VCmp(a, b) < 0
mpfr_lessequal_p(a, b) == ~VUnordered(a, b) /\ VCmp(a, b) <= 0
mpfr_greater_p(a, b) == ~VUnordered(a, b) /\ VCmp(a, b) > 0
mpfr_greaterequal_p(a, b) == ~VUnordered(a, b) /\ VCmp(a, b) >= 0

\* mpfr_cmp_d(x, c) for an integer c; NaN compares as 0
mpfr_cmp_d(x, c) ==
    CASE x.k = "nan" -> 0
      [] x.k = "inf" -> x.s
      [] OTHER -> RCmp(x.r, RInt(c))

BoolVal(b) == IF b THEN VInt(1) ELSE VInt(0)

----------------------------------------------------------------------------
(* Function Dispatch (core/functions.c)                                     *)

\* the value of a function at an argument inside its domain: exact where the
\* result is rational, unrepresented ("irr") elsewhere
FnValue(func_type, x) ==
    CASE x.k = "nan" -> VNaN
      [] x.k = "inf" -> VIrr
      [] func_type \in {"TOKEN_SIN", "TOKEN_TAN", "TOKEN_ASIN", "TOKEN_ATAN", "TOKEN_SINH",
                        "TOKEN_TANH", "TOKEN_ASINH", "TOKEN_ATANH"} ->
            IF RIsZero(x.r) THEN VInt(0) ELSE VIrr
      [] func_type \in {"TOKEN_COS", "TOKEN_COSH", "TOKEN_EXP"} ->
            IF RIsZero(x.r) THEN VInt(1) ELSE VIrr
      [] func_type \in {"TOKEN_ACOS", "TOKEN_ACOSH", "TOKEN_LOG"} ->
            IF x.r = RInt(1) THEN VInt(0) ELSE VIrr
      [] func_type = "TOKEN_LOG10" ->
            IF x.r = RInt(1) THEN VInt(0)
            ELSE IF x.r = RInt(10) THEN VInt(1)
            ELSE VIrr
      [] func_type = "TOKEN_SQRT" ->
            IF IsSquare(x.r.n) /\ IsSquare(x.r.d)
            THEN VFin(Rat(ISqrt(x.r.n), ISqrt(x.r.d)))
            ELSE VIrr
      [] func_type = "TOKEN_ABS" -> VFin(RAbs(x.r))
      [] func_type = "TOKEN_FLOOR" -> VInt(RFloor(x.r))
      [] func_type = "TOKEN_CEIL" -> VInt(RCeil(x.r))
      [] OTHER -> VIrr

\* functions_check_domain: TRUE when the arguments violate the domain
functions_check_domain(func_type, args) ==
    CASE func_type \in {"TOKEN_ASIN", "TOKEN_ACOS"} ->
            IF Len(args) # 1 THEN TRUE
            ELSE mpfr_cmp_d(args[1], 0 - 1) < 0 \/ mpfr_cmp_d(args[1], 1) > 0
      [] func_type = "TOKEN_ACOSH" ->
            IF Len(args) # 1 THEN TRUE ELSE mpfr_cmp_d(args[1], 1) < 0
      [] func_type = "TOKEN_ATANH" ->
            IF Len(args) # 1 THEN TRUE
            ELSE mpfr_cmp_d(args[1], 0 - 1) <= 0 \/ mpfr_cmp_d(args[1], 1) >= 0
      [] func_type = "TOKEN_SQRT" ->
            IF Len(args) # 1 THEN TRUE ELSE mpfr_cmp_d(args[1], 0) < 0
      [] func_type \in {"TOKEN_LOG", "TOKEN_LOG10"} ->
            IF Len(args) # 1 THEN TRUE ELSE mpfr_cmp_d(args[1], 0) <= 0
      [] token_is_function(func_type) -> FALSE
      [] OTHER -> TRUE

FnOk(v) == [v |-> v, success |-> 1, err |-> ""]
FnFail(msg) == [v |-> VInt(0), success |-> 0, err |-> msg]

\* functions_eval(result, func_type, args, arg_count) with the module's
\* strict_domain_mode flag: the value stored in result, the return code and the
\* message left in the module's last_error
functions_eval(func_type, args, strict_domain) ==
    IF \E i \in 1..Len(args) : args[i].k = "irr" THEN FnOk(VIrr)
    ELSE IF strict_domain # 0 /\ functions_check_domain(func_type, args)
    THEN [v |-> VNaN, success |-> 0, err |-> ""]
    ELSE IF ~token_is_function(func_type) THEN FnFail("Unknown function")
    ELSE IF Len(args) # function_table_get_arg_count(func_type)
    THEN FnFail("Wrong number of arguments for function")
    ELSE CASE func_type \in {"TOKEN_ASIN", "TOKEN_ACOS"} ->
                IF mpfr_cmp_d(args[1], 0 - 1) < 0 \/ mpfr_cmp_d(args[1], 1) > 0
                THEN FnFail("asin/acos domain error: argument must be in [-1,1]")
                ELSE FnOk(FnValue(func_type, args[1]))
           [] func_type = "TOKEN_ACOSH" ->
                IF mpfr_cmp_d(args[1], 1) < 0
                THEN FnFail("acosh domain error: argument must be >= 1")
                ELSE FnOk(FnValue(func_type, args[1]))
           [] func_type = "TOKEN_ATANH" ->
                IF mpfr_cmp_d(args[1], 0 - 1) <= 0 \/ mpfr_cmp_d(args[1], 1) >= 0
                THEN FnFail("atanh domain error: argument must be in (-1,1)")
                ELSE FnOk(FnValue(func_type, args[1]))
           [] func_type = "TOKEN_SQRT" ->
                IF mpfr_cmp_d(args[1], 0) < 0
                THEN FnFail("sqrt domain error: argument must be >= 0")
                ELSE FnOk(FnValue(func_type, args[1]))
           [] func_type \in {"TOKEN_LOG", "TOKEN_LOG10"} ->
                IF mpfr_cmp_d(args[1], 0) <= 0
                THEN FnFail("log domain error: argument must be > 0")
                ELSE FnOk(FnValue(func_type, args[1]))
           [] func_type = "TOKEN_POW" -> FnOk(mpfr_pow(args[1], args[2]))
           [] func_type = "TOKEN_ATAN2" ->
                FnOk(IF mpfr_zero_p(args[1]) /\ args[2].k = "fin" /\ RSgn(args[2].r) > 0
                     THEN VInt(0) ELSE IF VUnordered(args[1], args[2]) THEN VNaN ELSE VIrr)
           [] OTHER -> FnOk(FnValue(func_type, args[1]))

----------------------------------------------------------------------------
(* Evaluator (core/evaluator.c)                                             *)
(* An evaluation threads the record st through the recursion:               *)
(*   last_error : evaluator.c's static last_error                           *)
(*   fn_error   : functions.c's static last_error                           *)
(*   raised     : history, some node wrote an evaluator error message       *)
(*   fn_failed  : history, some functions_eval call returned failure        *)
(*   exact      : every value met is represented in the model               *)

\* snprintf(last_error, ...) in the evaluator
EvRaise(st, msg) == [st EXCEPT !.last_error = msg, !.raised = TRUE]

EvNote(st, v) == IF v.k = "irr" THEN [st EXCEPT !.exact = FALSE] ELSE st

\* the result is snapped to zero when |result| < 2^-(global_precision + 10); with
\* n/d in lowest terms this needs d to be at least global_precision + 10 bits longer
\* than n, which no value of the model is
BitLen(x) == CHOOSE b \in 0..30 : IPow(2, b) > x /\ (b = 0 \/ IPow(2, b - 1) <= x)
BelowEpsilon(v, prec) ==
    /\ v.k = "fin"
    /\ BitLen(v.r.d) > BitLen(AbsInt(v.r.n)) + prec + 9

\* the operator application of evaluator_eval_binop; TRUE in err when the case
\* writes an error message
ApplyBinop(op, left, right) ==
    CASE op = "TOKEN_PLUS" -> [v |-> mpfr_add(left, right), err |-> ""]
      [] op = "TOKEN_MINUS" -> [v |-> mpfr_sub(left, right), err |-> ""]
      [] op = "TOKEN_STAR" -> [v |-> mpfr_mul(left, right), err |-> ""]
      [] op = "TOKEN_SLASH" ->
            IF mpfr_zero_p(right) THEN [v |-> VInt(0), err |-> "Division by zero"]
            ELSE [v |-> mpfr_div(left, right), err |-> ""]
      [] op = "TOKEN_CARET" -> [v |-> mpfr_pow(left, right), err |-> ""]
      [] token_is_comparison_op(op) /\ (left.k = "irr" \/ right.k = "irr") ->
            [v |-> VIrr, err |-> ""]
      [] op = "TOKEN_EQ" -> [v |-> BoolVal(mpfr_equal_p(left, right)), err |-> ""]
      [] op = "TOKEN_NEQ" -> [v |-> BoolVal(~mpfr_equal_p(left, right)), err |-> ""]
      [] op = "TOKEN_LT" -> [v |-> BoolVal(mpfr_less_p(left, right)), err |-> ""]
      [] op = "TOKEN_LTE" -> [v |-> BoolVal(mpfr_lessequal_p(left, right)), err |-> ""]
      [] op = "TOKEN_GT" -> [v |-> BoolVal(mpfr_greater_p(left, right)), err |-> ""]
      [] op = "TOKEN_GTE" -> [v |-> BoolVal(mpfr_greaterequal_p(left, right)), err |-> ""]
      [] OTHER -> [v |-> VInt(0), err |-> "Unknown binary operator"]

RECURSIVE evaluator_eval(_, _, _, _)
RECURSIVE evaluator_eval_args(_, _, _, _, _)

\* the argument loop of evaluator_eval_function: args[i] = eval(node->function.args[i])
evaluator_eval_args(nodes, i, st, strict, strict_domain) ==
    IF i > Len(nodes) THEN [vs |-> <<>>, st |-> st]
    ELSE LET a == evaluator_eval(nodes[i], st, strict, strict_domain)
             rest == evaluator_eval_args(nodes, i + 1, a.st, strict, strict_domain)
         IN  [vs |-> <<a.v>> \o rest.vs, st |-> rest.st]

\* evaluator_eval(result, node): the value stored in result and the state after the
\* call, including evaluator_eval_constant, _binop, _unary and _function
evaluator_eval(node, st, strict, strict_domain) ==
    LET st0 == [st EXCEPT !.last_error = ""]
    IN  CASE node.type = "NODE_NUMBER" -> [v |-> VFin(node.value), st |-> st0]
          [] node.type = "NODE_CONSTANT" ->
                IF constants_known(node.name)
                THEN [v |-> VIrr, st |-> EvNote(st0, VIrr)]
                ELSE [v |-> VInt(0), st |-> EvRaise(st0, "Unknown constant")]
          [] node.type = "NODE_BINOP" ->
                LET l == evaluator_eval(node.left, st0, strict, strict_domain)
                    r == evaluator_eval(node.right, l.st, strict, strict_domain)
                    a == ApplyBinop(node.op, l.v, r.v)
                    st1 == IF a.err # "" THEN EvRaise(r.st, a.err) ELSE r.st
                IN  [v |-> a.v, st |-> EvNote(st1, a.v)]
          [] node.type = "NODE_UNARY" ->
                LET o == evaluator_eval(node.operand, st0, strict, strict_domain)
                IN  CASE node.op = "TOKEN_PLUS" -> [v |-> o.v, st |-> o.st]
                      [] node.op = "TOKEN_MINUS" -> [v |-> mpfr_neg(o.v), st |-> o.st]
                      [] OTHER -> [v |-> VInt(0), st |-> EvRaise(o.st, "Unknown unary operator")]
          [] node.type = "NODE_FUNCTION" ->
                LET as == evaluator_eval_args(node.args, 1, st0, strict, strict_domain)
                    f == functions_eval(node.func_type, as.vs, strict_domain)
                    st1 == [as.st EXCEPT !.fn_error = f.err,
                                         !.fn_failed = @ \/ f.success = 0]
                    st2 == IF f.success = 0 /\ strict # 0
                           THEN EvRaise(st1, "Function evaluation failed")
                           ELSE st1
                    v == IF BelowEpsilon(f.v, global_precision) THEN VInt(0) ELSE f.v
                IN  [v |-> v, st |-> EvNote(st2, v)]

\* the top-level call evaluator_eval(result, ast) of the host (ui/repl.c), on the
\* next queued tree
Evaluate ==
    /\ ev_queue # <<>>
    /\ LET x == Head(ev_queue)
           st == [last_error |-> ev_last_error, fn_error |-> fn_last_error,
                  raised |-> FALSE, fn_failed |-> FALSE, exact |-> TRUE]
           res == evaluator_eval(x, st, strict_mode, strict_domain_mode)
       IN  /\ res.st.exact
           /\ ev_node' = x
           /\ ev_result' = res.v
           /\ ev_last_error' = res.st.last_error
           /\ fn_last_error' = res.st.fn_error
           /\ ev_raised' = res.st.raised
           /\ ev_fn_failed' = res.st.fn_failed
    /\ ev_queue' = Tail(ev_queue)
    /\ ev_calls' = ev_calls + 1
    /\ UNCHANGED <<strict_mode, strict_domain_mode, notEvalVars>>

\* evaluator_set_strict_mode(strict), before the first evaluation
evaluator_set_strict_mode(strict) ==
    /\ ev_calls = 0
    /\ strict_mode' = strict
    /\ UNCHANGED <<strict_domain_mode, ev_last_error, fn_last_error, ev_queue, ev_node,
                   ev_result, ev_raised, ev_fn_failed, ev_calls, notEvalVars>>

\* functions_set_strict_domain(strict_domain), before the first evaluation
functions_set_strict_domain(strict_domain) ==
    /\ ev_calls = 0
    /\ strict_domain_mode' = strict_domain
    /\ UNCHANGED <<strict_mode, ev_last_error, fn_last_error, ev_queue, ev_node,
                   ev_result, ev_raised, ev_fn_failed, ev_calls, notEvalVars>>

\* evaluator_get_last_error: NULL (here "") when no message is stored
evaluator_get_last_error == ev_last_error

\* literals of the evaluated trees: 0, 1, 2 as integer literals
EvalNumbers == {Num(RInt(0), 1), Num(RInt(1), 1), Num(RInt(2), 1)}

\* leaves: the literals and a constant node whose name the registry does not know
EvalLeaves == EvalNumbers \cup {Const("tau")}

EvalOps == {"TOKEN_PLUS", "TOKEN_MINUS", "TOKEN_STAR", "TOKEN_SLASH"}

EvalFuncs == {"TOKEN_SQRT", "TOKEN_LOG", "TOKEN_LOG10", "TOKEN_ASIN", "TOKEN_ACOS",
              "TOKEN_ACOSH", "TOKEN_ATANH", "TOKEN_ABS"}

\* trees of height two: an operator, sign or function applied to leaves
EvalSmall ==
    EvalLeaves
    \cup {BinOp(op, a, b) : op \in EvalOps, a \in EvalLeaves, b \in EvalLeaves}
    \cup {Unary("TOKEN_MINUS", a) : a \in EvalNumbers}
    \cup {Func(f, <<a>>) : f \in EvalFuncs, a \in EvalNumbers}

\* trees of height three: the erroring node sits in the left operand, the right
\* operand or a function argument
EvalInputs ==
    EvalSmall
    \cup {BinOp(op, a, b) : op \in {"TOKEN_PLUS", "TOKEN_SLASH", "TOKEN_LT", "TOKEN_COMMA"},
                            a \in EvalSmall, b \in EvalLeaves}
    \cup {BinOp(op, a, b) : op \in {"TOKEN_PLUS", "TOKEN_SLASH", "TOKEN_LT", "TOKEN_COMMA"},
                            a \in EvalLeaves, b \in EvalSmall}
    \cup {Func(f, <<a>>) : f \in EvalFuncs, a \in EvalSmall}
    \cup {Func("TOKEN_POW", <<a, b>>) : a \in EvalNumbers, b \in EvalSmall}
    \cup {Unary(op, a) : op \in {"TOKEN_MINUS", "TOKEN_PLUS"}, a \in EvalSmall}

\* the first of two top-level calls: one that ends with an error, one that does not
EvalFirst == {BinOp("TOKEN_SLASH", Num(RInt(1), 1), Num(RInt(0), 1)), Num(RInt(1), 1)}

----------------------------------------------------------------------------
(* Parser (parser/parser.c)                                                 *)
(* A token is [type, text]; the lexer's output is the sequence p.tokens and *)
(* next_token hands out its tokens in order, then TOKEN_EOF.                *)
(* The parser record p holds the fields of struct Parser and two history    *)
(* fields: nest, the number of grammar-level re-entries now open (a         *)
(* parenthesis, a function argument, the operand of a sign, the right       *)
(* operand of '^'), and deepest, the largest value nest has had; counted,   *)
(* the largest value recursion_depth has had; prev_payload and cur_payload,  *)
(* the strings that previous_token and current_token point to; allocated,   *)
(* the payloads the lexer has allocated so far; frees, the payloads passed  *)
(* to free() in order; read_freed, a payload was read after its release;    *)
(* made and released, the number of AST nodes and argument arrays allocated *)
(* and freed by the parser; lexer_calls, the number of calls of             *)
(* lexer_get_next_token; stalled, an iteration of the loop of               *)
(* parse_factor_impl has ended without a call of the lexer;                 *)
(* inserted                                                                 *)
(* and declined, the pairs <<previous type, current type>> at which the     *)
(* loop of parse_factor_impl synthesized a '*' and at which it ended.       *)

MAX_RECURSION_DEPTH == 100

max_implicit_mult == 1000

Tok(type, text) == [type |-> type, text |-> text]

NullNode == [type |-> "NULL"]

\* mpfr_set_str on the literal texts the lexer can hand over
mpfr_set_str(str) ==
    CASE str = "0" -> RInt(0)
      [] str = "1" -> RInt(1)
      [] str = "2" -> RInt(2)
      [] str = "3" -> RInt(3)
      [] str = "4" -> RInt(4)
      [] str = "5" -> RInt(5)
      [] str = "8" -> RInt(8)
      [] str = "10" -> RInt(10)
      [] str = "-1" -> RInt(0 - 1)
      [] str = "2.0" -> RInt(2)
      [] str = "0.5" -> Rat(1, 2)
      [] str = "11" -> RInt(11)
      [] str = "111" -> RInt(111)
      [] str = "1111" -> RInt(1111)
      [] str = "1." -> RInt(1)
      [] str = "11." -> RInt(11)
      [] str = "111." -> RInt(111)
      [] str = ".1" -> Rat(1, 10)
      [] str = ".11" -> Rat(11, 100)
      [] str = ".111" -> Rat(111, 1000)
      [] str = "1.1" -> Rat(11, 10)
      [] str = "1.11" -> Rat(111, 100)
      [] str = "11.1" -> Rat(111, 10)
      [] str = "1e1" -> RInt(10)
      [] str = "1.e1" -> RInt(10)
      [] str = ".1e1" -> RInt(1)
      [] str = "11e1" -> RInt(110)
      [] str = "1e+1" -> RInt(10)
      [] OTHER -> RInt(0)

ast_create_number(str, is_int) == Num(mpfr_set_str(str), is_int)

\* lexer_get_next_token(parser->lexer), replayed from the lexer's output
next_token(p) ==
    IF p.pos <= Len(p.tokens) THEN p.tokens[p.pos] ELSE Tok("TOKEN_EOF", "")

\* the token carries a string the lexer allocated: number_string of a number,
\* string_value of a constant or an unknown identifier
HasPayload(tok) ==
    tok.type \in {"TOKEN_INT", "TOKEN_FLOAT", "TOKEN_IDENTIFIER"} \/ token_is_constant(tok.type)

\* the payload that comes with the token next_token hands out: payloads are
\* numbered by the position of their token, 0 is no payload
next_payload(p) == IF p.pos <= Len(p.tokens) /\ HasPayload(p.tokens[p.pos]) THEN p.pos ELSE 0

\* token_free(&token) on a token that holds the payload id
token_free(p, id) == IF id = 0 THEN p ELSE [p EXCEPT !.frees = Append(p.frees, id)]

\* a read of the payload id (token.number_string, token.string_value)
ReadPayload(p, id) ==
    IF id # 0 /\ \E i \in 1..Len(p.frees) : p.frees[i] = id
    THEN [p EXCEPT !.read_freed = TRUE] ELSE p

\* a mutant of parser_advance: the lexer is called twice for one token
parser_advance_Twice(p) ==
    [token_free(p, p.prev_payload)
        EXCEPT !.previous_token = p.current_token,
               !.prev_payload = p.cur_payload,
               !.current_token = next_token(p),
               !.cur_payload = next_payload(p),
               !.allocated = p.allocated \cup ({next_payload(p)} \ {0}),
               !.lexer_calls = p.lexer_calls + 2,
               !.pos = IF p.pos <= Len(p.tokens) THEN p.pos + 1 ELSE p.pos]

parser_advance(p) ==
    [token_free(p, p.prev_payload)
        EXCEPT !.previous_token = p.current_token,
               !.prev_payload = p.cur_payload,
               !.current_token = next_token(p),
               !.cur_payload = next_payload(p),
               !.allocated = p.allocated \cup ({next_payload(p)} \ {0}),
               !.lexer_calls = p.lexer_calls + 1,
               !.pos = IF p.pos <= Len(p.tokens) THEN p.pos + 1 ELSE p.pos]

\* history: a recursive re-entry of the grammar begins / ends
Enter(p) ==
    [p EXCEPT !.nest = p.nest + 1,
              !.deepest = IF p.nest + 1 > p.deepest THEN p.nest + 1 ELSE p.deepest]

Leave(r) == [r EXCEPT !.p.nest = r.p.nest - 1]

RECURSIVE Blocks(_)
RECURSIVE BlocksOfArgs(_, _)

BlocksOfArgs(args, i) ==
    IF i > Len(args) THEN 0 ELSE Blocks(args[i]) + BlocksOfArgs(args, i + 1)

\* the blocks that ast_free(node) hands to free(): one for each node of the tree
\* and one for the argument array of each function node that has one
Blocks(node) ==
    CASE node.type = "NULL" -> 0
      [] node.type = "NODE_BINOP" -> 1 + Blocks(node.left) + Blocks(node.right)
      [] node.type = "NODE_UNARY" -> 1 + Blocks(node.operand)
      [] node.type = "NODE_FUNCTION" ->
            1 + (IF node.args # <<>> THEN 1 ELSE 0) + BlocksOfArgs(node.args, 1)
      [] OTHER -> 1

\* history: ast_create_* has allocated a node for the result r
Made(r) == [r EXCEPT !.p.made = r.p.made + 1]

\* history: ast_create_binop has allocated a node inside a loop
MadeNode(p) == [p EXCEPT !.made = p.made + 1]

\* history: "args = malloc(expected_args * sizeof(ASTNode *))"
MallocArgs(p) == [p EXCEPT !.made = p.made + 1]

\* a mutant of FreeTree: the tree is dropped without being freed
FreeTree_Leak(p, node) == p

\* history: ast_free(node) in the parser
FreeTree(p, node) == [p EXCEPT !.released = p.released + Blocks(node)]

\* history: "for (i = 0; i < arg_count; i++) ast_free(args[i]); free(args);"
FreeArgsArray(p, args) == [p EXCEPT !.released = p.released + 1 + BlocksOfArgs(args, 1)]

\* a mutant of ParseError: the flag is set but a node is handed back
ParseError_WithNode(p) ==
    [ast |-> ast_create_number("0", 1), p |-> [p EXCEPT !.error_occurred = 1]]

ParseError(p) == [ast |-> NullNode, p |-> [p EXCEPT !.error_occurred = 1]]

\* the test "!node || parser->error_occurred"
Failed(r) == r.ast = NullNode \/ r.p.error_occurred # 0

\* a mutant of should_insert_multiplication: nothing is inserted after a constant
should_insert_multiplication_NotAfterConstant(p) ==
    LET prev == p.previous_token.type
        curr == p.current_token.type
        prevNum == prev \in {"TOKEN_INT", "TOKEN_FLOAT"}
        currNum == curr \in {"TOKEN_INT", "TOKEN_FLOAT"}
    IN  \/ (prevNum \/ prev = "TOKEN_RPAREN") /\ (currNum \/ curr = "TOKEN_LPAREN")
        \/ (prevNum \/ prev = "TOKEN_RPAREN") /\ token_is_function(curr)
        \/ (prevNum \/ prev = "TOKEN_RPAREN") /\ token_is_constant(curr)

should_insert_multiplication(p) ==
    LET prev == p.previous_token.type
        curr == p.current_token.type
        prevNum == prev \in {"TOKEN_INT", "TOKEN_FLOAT"}
        currNum == curr \in {"TOKEN_INT", "TOKEN_FLOAT"}
    IN  \/ prevNum /\ curr = "TOKEN_LPAREN"
        \/ prev = "TOKEN_RPAREN" /\ curr = "TOKEN_LPAREN"
        \/ prev = "TOKEN_RPAREN" /\ currNum
        \/ prevNum /\ currNum
        \/ prevNum /\ token_is_function(curr)
        \/ prev = "TOKEN_RPAREN" /\ token_is_function(curr)
        \/ (prevNum \/ prev = "TOKEN_RPAREN") /\ token_is_constant(curr)
        \/ token_is_constant(prev) /\ (currNum \/ curr = "TOKEN_LPAREN")

RECURSIVE parse_expression_impl(_)
RECURSIVE parse_unary_impl(_)
RECURSIVE parse_power_impl(_)
RECURSIVE parse_function_args(_, _, _, _)
RECURSIVE parse_factor_loop(_, _, _)
RECURSIVE parse_term_loop(_, _)
RECURSIVE parse_comparison_loop(_, _)

\* With(r, K) is "LET x == r IN K(x)" with r evaluated once, where it is written
With(r, K(_)) == CHOOSE y \in {K(x) : x \in {r}} : TRUE

\* a mutant of parse_function_args: the number of arguments is not checked
parse_function_args_AnyCount(p, func_type, args, expected_args) ==
    IF Len(args) < expected_args /\ p.current_token.type = "TOKEN_COMMA"
    THEN With(Leave(parse_expression_impl(Enter(parser_advance(p)))), LAMBDA a :
             IF Failed(a) THEN [ast |-> NullNode, p |-> a.p]
             ELSE parse_function_args(a.p, func_type, Append(args, a.ast), expected_args))
    ELSE IF p.current_token.type # "TOKEN_RPAREN" THEN ParseError(p)
    ELSE [ast |-> Func(func_type, args), p |-> parser_advance(p)]

\* the loop "while (arg_count < expected_args && current is ',')" of
\* parser_parse_function_call, then the argument-count and ')' checks
parse_function_args(p, func_type, args, expected_args) ==
    IF Len(args) < expected_args /\ p.current_token.type = "TOKEN_COMMA"
    THEN With(Leave(parse_expression_impl(Enter(parser_advance(p)))), LAMBDA a :
             IF Failed(a) THEN [ast |-> NullNode, p |-> FreeArgsArray(a.p, args)]
             ELSE parse_function_args(a.p, func_type, Append(args, a.ast), expected_args))
    ELSE IF expected_args > 0 /\ Len(args) # expected_args
    THEN ParseError(FreeArgsArray(p, args))
    ELSE IF p.current_token.type # "TOKEN_RPAREN"
    THEN ParseError(IF expected_args > 0 THEN FreeArgsArray(p, args) ELSE p)
    ELSE Made([ast |-> Func(func_type, args), p |-> parser_advance(p)])

parser_parse_function_call(p, func_type) ==
    IF p.current_token.type # "TOKEN_LPAREN" THEN ParseError(p)
    ELSE IF function_table_get_arg_count(func_type) > 0
    THEN With(Leave(parse_expression_impl(Enter(MallocArgs(parser_advance(p))))),
              LAMBDA a :
             IF Failed(a) THEN [ast |-> NullNode, p |-> FreeArgsArray(a.p, <<>>)]
             ELSE parse_function_args(a.p, func_type, <<a.ast>>,
                                      function_table_get_arg_count(func_type)))
    ELSE parse_function_args(parser_advance(p), func_type, <<>>,
                             function_table_get_arg_count(func_type))

\* the constant case reads "case TOKEN_PI: case TOKEN_E:" in parser.c; tokens.h
\* unifies both as TOKEN_CONSTANT with the name in the token's string
parse_primary_impl(p) ==
    LET token == p.current_token
    IN  CASE token.type \in {"TOKEN_INT", "TOKEN_FLOAT"} ->
                Made([ast |-> ast_create_number(token.text,
                                                IF token.type = "TOKEN_INT" THEN 1 ELSE 0),
                      p |-> ReadPayload(parser_advance(p), p.cur_payload)])
          [] token.type = "TOKEN_LPAREN" ->
                With(Leave(parse_expression_impl(Enter(parser_advance(p)))), LAMBDA e :
                    IF Failed(e) THEN [ast |-> NullNode, p |-> e.p]
                    ELSE IF e.p.current_token.type # "TOKEN_RPAREN"
                    THEN ParseError(FreeTree(e.p, e.ast))
                    ELSE [ast |-> e.ast, p |-> parser_advance(e.p)])
          [] token_is_constant(token.type) ->
                Made([ast |-> Const(token.text), p |-> parser_advance(p)])
          [] token.type = "TOKEN_INVALID" -> ParseError(p)
          [] token.type = "TOKEN_IDENTIFIER" -> ParseError(ReadPayload(p, p.cur_payload))
          [] token_is_function(token.type) ->
                parser_parse_function_call(parser_advance(p), token.type)
          [] OTHER -> ParseError(p)

parse_unary_impl(p) ==
    IF token_is_unary_op(p.current_token.type)
    THEN With(Leave(parse_unary_impl(Enter(parser_advance(p)))), LAMBDA operand :
             IF Failed(operand) THEN [ast |-> NullNode, p |-> operand.p]
             ELSE Made([ast |-> Unary(p.current_token.type, operand.ast), p |-> operand.p]))
    ELSE parse_primary_impl(p)

\* a mutant of parse_power_impl: '^' groups to the left
parse_power_impl_LeftAssoc(p) ==
    With(parse_unary_impl(p), LAMBDA left :
        IF Failed(left) THEN left
        ELSE IF left.p.current_token.type = "TOKEN_CARET"
        THEN With(Leave(parse_unary_impl(Enter(parser_advance(left.p)))), LAMBDA right :
                 IF Failed(right) THEN [ast |-> NullNode, p |-> right.p]
                 ELSE IF right.p.current_token.type = "TOKEN_CARET"
                 THEN With(Leave(parse_power_impl(Enter(parser_advance(right.p)))),
                           LAMBDA last :
                          IF Failed(last) THEN [ast |-> NullNode, p |-> last.p]
                          ELSE [ast |-> BinOp("TOKEN_CARET",
                                              BinOp("TOKEN_CARET", left.ast, right.ast),
                                              last.ast),
                                p |-> last.p])
                 ELSE [ast |-> BinOp("TOKEN_CARET", left.ast, right.ast), p |-> right.p])
        ELSE left)

parse_power_impl(p) ==
    With(parse_unary_impl(p), LAMBDA left :
        IF Failed(left) THEN left
        ELSE IF left.p.current_token.type = "TOKEN_CARET"
        THEN With(Leave(parse_power_impl(Enter(parser_advance(left.p)))), LAMBDA right :
                 IF Failed(right)
                 THEN [ast |-> NullNode, p |-> FreeTree(FreeTree(right.p, left.ast), right.ast)]
                 ELSE Made([ast |-> BinOp("TOKEN_CARET", left.ast, right.ast), p |-> right.p]))
        ELSE left)

\* history: the loop of parse_factor_impl synthesizes a '*' between the previous
\* and the current token / ends with these two tokens
TokenPair(p) == <<p.previous_token.type, p.current_token.type>>

Inserted(p) == [p EXCEPT !.inserted = p.inserted \cup {TokenPair(p)}]

Declined(p) == [p EXCEPT !.declined = p.declined \cup {TokenPair(p)}]

\* history: an iteration that began with the parser p has ended with the parser q
Iterated(q, p) == IF q.lexer_calls = p.lexer_calls THEN [q EXCEPT !.stalled = TRUE] ELSE q

\* the while loop of parse_factor_impl: explicit '*' and '/', and the virtual '*'
\* of an implicit multiplication, which consumes no token
parse_factor_loop(left, p, implicit_mult_count) ==
    IF /\ \/ p.current_token.type \in {"TOKEN_STAR", "TOKEN_SLASH"}
          \/ should_insert_multiplication(p)
       /\ implicit_mult_count < max_implicit_mult
    THEN LET ins == should_insert_multiplication(p)
             op == IF ins THEN "TOKEN_STAR" ELSE p.current_token.type
         IN  With(parse_power_impl(IF ins THEN Inserted(p) ELSE parser_advance(p)),
                  LAMBDA right :
                 IF Failed(right)
                 THEN [ast |-> NullNode, p |-> FreeTree(FreeTree(right.p, left), right.ast)]
                 ELSE parse_factor_loop(BinOp(op, left, right.ast),
                                        Iterated(MadeNode(right.p), p),
                                        IF ins THEN implicit_mult_count + 1
                                        ELSE implicit_mult_count))
    ELSE IF implicit_mult_count >= max_implicit_mult THEN ParseError(FreeTree(p, left))
    ELSE [ast |-> left, p |-> Declined(p)]

\* in the three functions below a failed first operand is returned as it is
\* ("if (!left || parser->error_occurred) return left")
parse_factor_impl(p) ==
    With(parse_power_impl(p), LAMBDA left :
        IF Failed(left) THEN left ELSE parse_factor_loop(left.ast, left.p, 0))

\* a mutant of parse_term_loop: the right operand of '+' and '-' is a power
parse_term_loop_TightPlus(left, p) ==
    IF p.current_token.type \in {"TOKEN_PLUS", "TOKEN_MINUS"}
    THEN With(parse_power_impl(parser_advance(p)), LAMBDA right :
             IF Failed(right) THEN [ast |-> NullNode, p |-> right.p]
             ELSE parse_term_loop(BinOp(p.current_token.type, left, right.ast), right.p))
    ELSE [ast |-> left, p |-> p]

parse_term_loop(left, p) ==
    IF p.current_token.type \in {"TOKEN_PLUS", "TOKEN_MINUS"}
    THEN With(parse_factor_impl(parser_advance(p)), LAMBDA right :
             IF Failed(right)
             THEN [ast |-> NullNode, p |-> FreeTree(FreeTree(right.p, left), right.ast)]
             ELSE parse_term_loop(BinOp(p.current_token.type, left, right.ast),
                                  MadeNode(right.p)))
    ELSE [ast |-> left, p |-> p]

parse_term_impl(p) ==
    With(parse_factor_impl(p), LAMBDA left :
        IF Failed(left) THEN left ELSE parse_term_loop(left.ast, left.p))

parse_comparison_loop(left, p) ==
    IF token_is_comparison_op(p.current_token.type)
    THEN With(parse_term_impl(parser_advance(p)), LAMBDA right :
             IF Failed(right)
             THEN [ast |-> NullNode, p |-> FreeTree(FreeTree(right.p, left), right.ast)]
             ELSE parse_comparison_loop(BinOp(p.current_token.type, left, right.ast),
                                        MadeNode(right.p)))
    ELSE [ast |-> left, p |-> p]

parse_comparison_impl(p) ==
    With(parse_term_impl(p), LAMBDA left :
        IF Failed(left) THEN left ELSE parse_comparison_loop(left.ast, left.p))

parse_expression_impl(p) == parse_comparison_impl(p)

\* CHECK_RECURSION_DEPTH, the call of the implementation, RETURN_WITH_DEPTH_DECREMENT
parser_parse_expression(p) ==
    IF p.recursion_depth >= p.max_depth THEN ParseError(p)
    ELSE With(parse_expression_impl(
                  [p EXCEPT !.recursion_depth = p.recursion_depth + 1,
                            !.counted = IF p.recursion_depth + 1 > p.counted
                                        THEN p.recursion_depth + 1 ELSE p.counted]),
              LAMBDA r : [r EXCEPT !.p.recursion_depth = r.p.recursion_depth - 1])

\* parser_init over a lexer that will produce tokens
parser_init(tokens) ==
    [tokens |-> tokens,
     pos |-> IF tokens = <<>> THEN 1 ELSE 2,
     previous_token |-> Tok("TOKEN_INVALID", ""),
     current_token |-> IF tokens = <<>> THEN Tok("TOKEN_EOF", "") ELSE tokens[1],
     recursion_depth |-> 0,
     max_depth |-> MAX_RECURSION_DEPTH,
     error_occurred |-> 0,
     nest |-> 0,
     deepest |-> 0,
     counted |-> 0,
     prev_payload |-> 0,
     cur_payload |-> IF tokens # <<>> /\ HasPayload(tokens[1]) THEN 1 ELSE 0,
     allocated |-> IF tokens # <<>> /\ HasPayload(tokens[1]) THEN {1} ELSE {},
     frees |-> <<>>,
     made |-> 0,
     released |-> 0,
     lexer_calls |-> 1,
     stalled |-> FALSE,
     read_freed |-> FALSE,
     inserted |-> {},
     declined |-> {}]

\* parser_set_max_recursion_depth(&parser, max_depth), before parsing
parser_set_max_recursion_depth(max_depth) ==
    /\ parse_calls = 0
    /\ parser' = [parser EXCEPT !.max_depth = max_depth]
    /\ UNCHANGED <<parse_result, parse_calls, notParseVars>>

\* ASTNode *ast = parser_parse_expression(&parser)
Parse ==
    /\ parse_calls = 0
    /\ \E r \in {parser_parse_expression(parser)} :
           /\ parser' = r.p
           /\ parse_result' = r.ast
    /\ parse_calls' = 1
    /\ UNCHANGED notParseVars

parser_has_error == parser.error_occurred

\* the longest token sequence parsed
MaxTokens == 5

\* the maximum depths the host configures
MaxDepths == {1, 2}

ParseAlphabet ==
    {Tok("TOKEN_INT", "1"), Tok("TOKEN_LPAREN", ""), Tok("TOKEN_RPAREN", ""),
     Tok("TOKEN_MINUS", ""), Tok("TOKEN_CARET", ""), Tok("TOKEN_SQRT", "")}

ParseInputs == UNION {[1..n -> ParseAlphabet] : n \in 1..MaxTokens}

\* the longest token sequence over GrammarAlphabet parsed
MaxGrammarTokens == 4

GrammarAlphabet ==
    {Tok("TOKEN_INT", "2"), Tok("TOKEN_FLOAT", "0.5"), Tok("TOKEN_CONSTANT", "pi"),
     Tok("TOKEN_LPAREN", ""), Tok("TOKEN_RPAREN", ""), Tok("TOKEN_SQRT", ""),
     Tok("TOKEN_PLUS", ""), Tok("TOKEN_STAR", ""), Tok("TOKEN_CARET", ""),
     Tok("TOKEN_COMMA", "")}

\* the binary operators; <<>> is the implicit multiplication, written by
\* putting two operands next to each other
ChainOps ==
    {<<>>, <<Tok("TOKEN_PLUS", "")>>, <<Tok("TOKEN_MINUS", "")>>, <<Tok("TOKEN_STAR", "")>>,
     <<Tok("TOKEN_SLASH", "")>>, <<Tok("TOKEN_CARET", "")>>, <<Tok("TOKEN_LT", "")>>,
     <<Tok("TOKEN_EQ", "")>>}

\* the operands a, b, c of a chain
ChainOperands ==
    {<<Tok("TOKEN_INT", "5"), Tok("TOKEN_INT", "3"), Tok("TOKEN_INT", "1")>>,
     <<Tok("TOKEN_INT", "2"), Tok("TOKEN_INT", "3"), Tok("TOKEN_INT", "2")>>}

\* [-] a o1 b o2 c,  [-] ( a o1 b ) o2 c  and  [-] a o1 ( b o2 c ), where shape
\* says which and sign whether the '-' is there
ChainTokens(x, o1, o2, shape, sign) ==
    (IF sign THEN <<Tok("TOKEN_MINUS", "")>> ELSE <<>>)
    \o (IF shape = "left" THEN <<Tok("TOKEN_LPAREN", "")>> ELSE <<>>)
    \o <<x[1]>> \o o1
    \o (IF shape = "right" THEN <<Tok("TOKEN_LPAREN", "")>> ELSE <<>>)
    \o <<x[2]>>
    \o (IF shape = "left" THEN <<Tok("TOKEN_RPAREN", "")>> ELSE <<>>)
    \o o2 \o <<x[3]>>
    \o (IF shape = "right" THEN <<Tok("TOKEN_RPAREN", "")>> ELSE <<>>)

ChainShapes == {"flat", "left", "right"}

ChainInputs ==
    {ChainTokens(x, o1, o2, shape, sign) :
        x \in ChainOperands, o1 \in ChainOps, o2 \in ChainOps,
        shape \in ChainShapes, sign \in BOOLEAN}

\* the functions called and the numbers of arguments written
CallFunctions == {"TOKEN_SQRT", "TOKEN_POW", "TOKEN_ATAN2"}

CallArgCounts == 0..3

\* k arguments separated by commas
RECURSIVE CallArgs(_)
CallArgs(k) ==
    IF k = 0 THEN <<>>
    ELSE IF k = 1 THEN <<Tok("TOKEN_INT", "2")>>
    ELSE CallArgs(k - 1) \o <<Tok("TOKEN_COMMA", ""), Tok("TOKEN_INT", "2")>>

\* f ( a1 , ... , ak ), with or without its parentheses
CallTokens(f, lp, k, rp) ==
    <<Tok(f, "")>>
    \o (IF lp THEN <<Tok("TOKEN_LPAREN", "")>> ELSE <<>>)
    \o CallArgs(k)
    \o (IF rp THEN <<Tok("TOKEN_RPAREN", "")>> ELSE <<>>)

CallInputs ==
    {CallTokens(f, lp, k, rp) :
        f \in CallFunctions, lp \in BOOLEAN, k \in CallArgCounts, rp \in BOOLEAN}

GrammarInputs ==
    UNION {[1..n -> GrammarAlphabet] : n \in 1..MaxGrammarTokens}
        \cup ChainInputs \cup CallInputs

----------------------------------------------------------------------------
(* Symbolic simplifier (core/symbolic.c) over a heap of AST nodes            *)
(* The record m is the machine the simplifier runs on:                      *)
(*   heap   : the nodes ever allocated, a node's address being its index;   *)
(*            the children of a heap node are addresses                     *)
(*   freed  : the addresses released with free()                            *)
(*   dfree  : history, an address was released twice                        *)
(*   err    : symbolic.c's static last_error                                *)
(*   div0   : history, the addresses returned by the x / 0 rule             *)
(*   uaf    : the value a read of number.is_int yields once the node has    *)
(*            been released (undefined behaviour)                           *)
(* A function that returns a node returns [m, a]: the machine after the     *)
(* call and the node's address.                                             *)

NULL == 0

Ret(m, a) == [m |-> m, a |-> a]

\* malloc and initialisation of one node (ast_create_number, ast_create_constant,
\* ast_create_binop, ast_create_unary, ast_create_function)
Alloc(m, node) == Ret([m EXCEPT !.heap = Append(m.heap, node)], Len(m.heap) + 1)

\* free(node) of one node
FreeNode(m, a) ==
    IF a = NULL THEN m
    ELSE [m EXCEPT !.freed = m.freed \cup {a}, !.dfree = m.dfree \/ a \in m.freed]

\* a mutant of ast_free: nothing is released
ast_free_Leak(m, node) == m

RECURSIVE ast_free(_, _)
RECURSIVE ast_free_args(_, _, _)
RECURSIVE Tree(_, _)
RECURSIVE NodeSeq(_, _)
RECURSIVE Store(_, _)
RECURSIVE StoreArgs(_, _, _, _)
RECURSIVE symbolic_clone(_, _)
RECURSIVE symbolic_clone_args(_, _, _, _)
RECURSIVE symbolic_equals(_, _)
RECURSIVE node_compare(_, _)
RECURSIVE node_compare_args(_, _, _)

\* the loop "for (i = 0; i < arg_count; i++) ast_free(args[i])"
ast_free_args(m, args, i) ==
    IF i > Len(args) THEN m ELSE ast_free_args(ast_free(m, args[i]), args, i + 1)

ast_free(m, node) ==
    IF node = NULL THEN m
    ELSE LET n == m.heap[node]
         IN  CASE n.type = "NODE_BINOP" ->
                     FreeNode(ast_free(ast_free(m, n.left), n.right), node)
               [] n.type = "NODE_UNARY" -> FreeNode(ast_free(m, n.operand), node)
               [] n.type = "NODE_FUNCTION" -> FreeNode(ast_free_args(m, n.args, 1), node)
               [] OTHER -> FreeNode(m, node)

\* the tree below address a as a value; a released node reads as "FREED"
Tree(m, a) ==
    IF a = NULL THEN NullNode
    ELSE IF a \in m.freed THEN [type |-> "FREED"]
    ELSE LET n == m.heap[a]
         IN  CASE n.type = "NODE_BINOP" -> BinOp(n.op, Tree(m, n.left), Tree(m, n.right))
               [] n.type = "NODE_UNARY" -> Unary(n.op, Tree(m, n.operand))
               [] n.type = "NODE_FUNCTION" ->
                     IF Len(n.args) = 1 THEN Func(n.func_type, <<Tree(m, n.args[1])>>)
                     ELSE Func(n.func_type, <<Tree(m, n.args[1]), Tree(m, n.args[2])>>)
               [] OTHER -> n

\* the addresses reachable from a, each as often as it is reached
NodeSeq(m, a) ==
    IF a = NULL THEN <<>>
    ELSE LET n == m.heap[a]
         IN  CASE n.type = "NODE_BINOP" -> <<a>> \o NodeSeq(m, n.left) \o NodeSeq(m, n.right)
               [] n.type = "NODE_UNARY" -> <<a>> \o NodeSeq(m, n.operand)
               [] n.type = "NODE_FUNCTION" ->
                     IF Len(n.args) = 1 THEN <<a>> \o NodeSeq(m, n.args[1])
                     ELSE <<a>> \o NodeSeq(m, n.args[1]) \o NodeSeq(m, n.args[2])
               [] OTHER -> <<a>>

\* the parser's construction of a tree on the heap, children first
StoreArgs(m, ts, i, as) ==
    IF i > Len(ts) THEN Ret(m, as)
    ELSE With(Store(m, ts[i]), LAMBDA x : StoreArgs(x.m, ts, i + 1, Append(as, x.a)))

Store(m, t) ==
    CASE t.type = "NODE_BINOP" ->
            With(Store(m, t.left), LAMBDA l :
                With(Store(l.m, t.right), LAMBDA r : Alloc(r.m, BinOp(t.op, l.a, r.a))))
      [] t.type = "NODE_UNARY" ->
            With(Store(m, t.operand), LAMBDA o : Alloc(o.m, Unary(t.op, o.a)))
      [] t.type = "NODE_FUNCTION" ->
            With(StoreArgs(m, t.args, 1, <<>>), LAMBDA as :
                Alloc(as.m, Func(t.func_type, as.a)))
      [] OTHER -> Alloc(m, t)

symbolic_clone_args(m, args, i, as) ==
    IF i > Len(args) THEN Ret(m, as)
    ELSE With(symbolic_clone(m, args[i]), LAMBDA x :
             symbolic_clone_args(x.m, args, i + 1, Append(as, x.a)))

\* a mutant of symbolic_clone: the node itself is handed back
symbolic_clone_Alias(m, node) == Ret(m, node)

symbolic_clone(m, node) ==
    IF node = NULL THEN Ret(m, NULL)
    ELSE LET n == m.heap[node]
         IN  CASE n.type = "NODE_NUMBER" -> Alloc(m, Num(n.value, n.is_int))
               [] n.type = "NODE_CONSTANT" -> Alloc(m, Const(n.name))
               [] n.type = "NODE_BINOP" ->
                     With(symbolic_clone(m, n.left), LAMBDA l :
                         With(symbolic_clone(l.m, n.right), LAMBDA r :
                             Alloc(r.m, BinOp(n.op, l.a, r.a))))
               [] n.type = "NODE_UNARY" ->
                     With(symbolic_clone(m, n.operand), LAMBDA o :
                         Alloc(o.m, Unary(n.op, o.a)))
               [] n.type = "NODE_FUNCTION" ->
                     With(symbolic_clone_args(m, n.args, 1, <<>>), LAMBDA as :
                         Alloc(as.m, Func(n.func_type, as.a)))
               [] OTHER -> Ret(m, NULL)

\* symbolic_equals on the trees below two nodes
symbolic_equals(a, b) ==
    IF a.type # b.type THEN FALSE
    ELSE CASE a.type = "NODE_NUMBER" -> a.value = b.value /\ a.is_int = b.is_int
           [] a.type = "NODE_CONSTANT" -> a.name = b.name
           [] a.type = "NODE_BINOP" ->
                 /\ a.op = b.op
                 /\ symbolic_equals(a.left, b.left)
                 /\ symbolic_equals(a.right, b.right)
           [] a.type = "NODE_UNARY" -> a.op = b.op /\ symbolic_equals(a.operand, b.operand)
           [] a.type = "NODE_FUNCTION" ->
                 /\ a.func_type = b.func_type
                 /\ Len(a.args) = Len(b.args)
                 /\ \A i \in 1..Len(a.args) : symbolic_equals(a.args[i], b.args[i])
           [] a.type = "NULL" -> TRUE
           [] OTHER -> FALSE

\* strcmp on the constant names in use: negative, zero or positive
SortedNames == <<"e", "pi", "tau">>
strcmp(a, b) ==
    (CHOOSE i \in 1..Len(SortedNames) : SortedNames[i] = a)
    - (CHOOSE i \in 1..Len(SortedNames) : SortedNames[i] = b)

\* a mutant of node_compare: every pair is out of order
node_compare_AlwaysGreater(a, b) == 1

node_compare(a, b) ==
    IF a.type # b.type THEN NodeTypeOrd(a.type) - NodeTypeOrd(b.type)
    ELSE CASE a.type = "NODE_NUMBER" -> RCmp(a.value, b.value)
           [] a.type = "NODE_CONSTANT" -> strcmp(a.name, b.name)
           [] a.type = "NODE_FUNCTION" ->
                 IF a.func_type # b.func_type
                 THEN TokenOrd(a.func_type) - TokenOrd(b.func_type)
                 ELSE IF Len(a.args) # Len(b.args) THEN Len(a.args) - Len(b.args)
                 ELSE node_compare_args(a.args, b.args, 1)
           [] a.type = "NODE_BINOP" ->
                 IF a.op # b.op THEN TokenOrd(a.op) - TokenOrd(b.op)
                 ELSE IF node_compare(a.left, b.left) # 0
                 THEN node_compare(a.left, b.left)
                 ELSE node_compare(a.right, b.right)
           [] a.type = "NODE_UNARY" ->
                 IF a.op # b.op THEN TokenOrd(a.op) - TokenOrd(b.op)
                 ELSE node_compare(a.operand, b.operand)
           [] OTHER -> 0

node_compare_args(as, bs, i) ==
    IF i > Len(as) THEN 0
    ELSE IF node_compare(as[i], bs[i]) # 0 THEN node_compare(as[i], bs[i])
    ELSE node_compare_args(as, bs, i + 1)

is_commutative(op) == op \in {"TOKEN_PLUS", "TOKEN_STAR"}

\* symbolic_is_zero, symbolic_is_one and matches_constant on a heap node
symbolic_is_zero(n) == n.type = "NODE_NUMBER" /\ RIsZero(n.value)
symbolic_is_one(n) == n.type = "NODE_NUMBER" /\ n.value = RInt(1)
matches_constant(n, const_name) == n.type = "NODE_CONSTANT" /\ n.name = const_name

RECURSIVE symbolic_simplify_binop(_, _, _, _)
RECURSIVE symbolic_simplify_function(_, _, _)

\* the largest number of rule applications followed within one top-level call
MaxSimplifyCalls == 40

\* one more invocation of symbolic_simplify_binop or symbolic_simplify_function
\* within the running top-level call
Entered(m) == [m EXCEPT !.calls = m.calls + 1]

\* an invocation past MaxSimplifyCalls is not followed: the node is kept as built
CutOff(m) == m.calls >= MaxSimplifyCalls

\* ast_create_number(buffer, 1) after ast_free(left); ast_free(right): the folded
\* integer, printed with "%.0Rf"
FoldInt(m, left, right, v) ==
    Alloc(ast_free(ast_free(m, left), right), Num(RInt(RoundHalfEven(v)), 1))

\* ast_free(left); ast_free(right); return ast_create_number(str, 1)
FreeBoth(m, left, right, str) ==
    Alloc(ast_free(ast_free(m, left), right), ast_create_number(str, 1))

IsIntNumber(n) == n.type = "NODE_NUMBER" /\ n.is_int # 0

IsStar(n) == n.type = "NODE_BINOP" /\ n.op = "TOKEN_STAR"

IsSqrt(n) == n.type = "NODE_FUNCTION" /\ n.func_type = "TOKEN_SQRT"

\* case TOKEN_PLUS of symbolic_simplify_binop
simplify_plus(m, left, right) ==
    LET l == m.heap[left]
        r == m.heap[right]
    IN  IF symbolic_is_zero(r) THEN Ret(ast_free(m, right), left)
        ELSE IF symbolic_is_zero(l) THEN Ret(ast_free(m, left), right)
        ELSE IF IsIntNumber(l) /\ IsIntNumber(r)
        THEN FoldInt(m, left, right, RAdd(l.value, r.value))
        ELSE IF symbolic_equals(Tree(m, left), Tree(m, right))
        THEN With(Alloc(m, ast_create_number("2", 1)), LAMBDA two :
                 symbolic_simplify_binop(ast_free(two.m, right), "TOKEN_STAR", two.a, left))
        ELSE IF IsStar(l) /\ symbolic_equals(Tree(m, l.right), Tree(m, right))
        THEN With(Alloc(m, ast_create_number("1", 1)), LAMBDA one :
                 With(symbolic_simplify_binop(FreeNode(ast_free(one.m, right), left),
                                              "TOKEN_PLUS", l.left, one.a),
                      LAMBDA a_plus_1 :
                          symbolic_simplify_binop(a_plus_1.m, "TOKEN_STAR",
                                                  a_plus_1.a, l.right)))
        ELSE IF IsStar(r) /\ symbolic_equals(Tree(m, left), Tree(m, r.right))
        THEN With(Alloc(m, ast_create_number("1", 1)), LAMBDA one :
                 With(symbolic_simplify_binop(FreeNode(ast_free(one.m, left), right),
                                              "TOKEN_PLUS", one.a, r.left),
                      LAMBDA one_plus_b :
                          symbolic_simplify_binop(one_plus_b.m, "TOKEN_STAR",
                                                  one_plus_b.a, r.right)))
        ELSE IF IsStar(l) /\ IsStar(r) /\ symbolic_equals(Tree(m, l.right), Tree(m, r.right))
        THEN With(symbolic_clone(m, l.right), LAMBDA x :
                 With(symbolic_simplify_binop(
                          FreeNode(FreeNode(ast_free(ast_free(x.m, l.right), r.right),
                                            left), right),
                          "TOKEN_PLUS", l.left, r.left),
                      LAMBDA a_plus_b :
                          symbolic_simplify_binop(a_plus_b.m, "TOKEN_STAR",
                                                  a_plus_b.a, x.a)))
        ELSE Alloc(m, BinOp("TOKEN_PLUS", left, right))

\* case TOKEN_MINUS
simplify_minus(m, left, right) ==
    IF symbolic_is_zero(m.heap[right]) THEN Ret(ast_free(m, right), left)
    ELSE IF symbolic_equals(Tree(m, left), Tree(m, right))
    THEN FreeBoth(m, left, right, "0")
    ELSE Alloc(m, BinOp("TOKEN_MINUS", left, right))

\* case TOKEN_STAR
simplify_star(m, left, right) ==
    LET l == m.heap[left]
        r == m.heap[right]
    IN  IF symbolic_is_zero(l) \/ symbolic_is_zero(r) THEN FreeBoth(m, left, right, "0")
        ELSE IF symbolic_is_one(r) THEN Ret(ast_free(m, right), left)
        ELSE IF symbolic_is_one(l) THEN Ret(ast_free(m, left), right)
        ELSE IF IsIntNumber(l) /\ IsIntNumber(r)
        THEN FoldInt(m, left, right, RMul(l.value, r.value))
        ELSE IF IsSqrt(l) /\ IsSqrt(r)
        THEN With(symbolic_clone(m, l.args[1]), LAMBDA a_clone :
                 With(symbolic_clone(a_clone.m, r.args[1]), LAMBDA b_clone :
                     With(symbolic_simplify_binop(ast_free(ast_free(b_clone.m, left), right),
                                                  "TOKEN_STAR", a_clone.a, b_clone.a),
                          LAMBDA product :
                              symbolic_simplify_function(product.m, "TOKEN_SQRT",
                                                         <<product.a>>))))
        ELSE Alloc(m, BinOp("TOKEN_STAR", left, right))

\* case TOKEN_CARET
simplify_caret(m, left, right) ==
    LET l == m.heap[left]
        r == m.heap[right]
    IN  IF symbolic_is_zero(r) THEN FreeBoth(m, left, right, "1")
        ELSE IF symbolic_is_one(r) THEN Ret(ast_free(m, right), left)
        ELSE IF symbolic_is_zero(l) THEN FreeBoth(m, left, right, "0")
        ELSE IF symbolic_is_one(l) THEN FreeBoth(m, left, right, "1")
        ELSE Alloc(m, BinOp("TOKEN_CARET", left, right))

simplify_distribute_Again(m, left, right, op) ==
    symbolic_simplify_binop(m, "TOKEN_SLASH", left, right)

\* (a + b) / c and (a - b) / c: a/c and b/c on clones, joined with the operator op
simplify_distribute(m, left, right, op) ==
    With(symbolic_clone(m, m.heap[left].left), LAMBDA a :
        With(symbolic_clone(a.m, m.heap[left].right), LAMBDA b :
            With(symbolic_clone(b.m, right), LAMBDA c1 :
                With(symbolic_clone(c1.m, right), LAMBDA c2 :
                    With(symbolic_simplify_binop(ast_free(ast_free(c2.m, left), right),
                                                 "TOKEN_SLASH", a.a, c1.a),
                         LAMBDA a_div_c :
                             With(symbolic_simplify_binop(a_div_c.m, "TOKEN_SLASH",
                                                          b.a, c2.a),
                                  LAMBDA b_div_c :
                                      symbolic_simplify_binop(b_div_c.m, op, a_div_c.a,
                                                              b_div_c.a)))))))

\* case TOKEN_SLASH
simplify_slash(m, left, right) ==
    LET l == m.heap[left]
        r == m.heap[right]
        L == Tree(m, left)
        R == Tree(m, right)
    IN  IF symbolic_is_zero(r)
        THEN With(FreeBoth([m EXCEPT !.err = "Division by zero"], left, right, "0"),
                  LAMBDA zero : Ret([zero.m EXCEPT !.div0 = zero.m.div0 \cup {zero.a}],
                                    zero.a))
        ELSE IF symbolic_is_one(r) THEN Ret(ast_free(m, right), left)
        ELSE IF symbolic_equals(L, R) /\ ~symbolic_is_zero(l) THEN FreeBoth(m, left, right, "1")
        ELSE IF symbolic_is_zero(l) THEN FreeBoth(m, left, right, "0")
        ELSE IF IsStar(l) /\ symbolic_equals(L.right, R)
        THEN Ret(FreeNode(ast_free(ast_free(m, l.right), right), left), l.left)
        ELSE IF IsStar(l) /\ symbolic_equals(L.left, R)
        THEN Ret(FreeNode(ast_free(ast_free(m, l.left), right), left), l.right)
        ELSE IF IsStar(r) /\ symbolic_equals(R.right, L)
        THEN With(Alloc(FreeNode(ast_free(ast_free(m, r.right), left), right),
                        ast_create_number("1", 1)),
                  LAMBDA one : symbolic_simplify_binop(one.m, "TOKEN_SLASH", one.a, r.left))
        ELSE IF IsStar(r) /\ symbolic_equals(R.left, L)
        THEN With(Alloc(FreeNode(ast_free(ast_free(m, r.left), left), right),
                        ast_create_number("1", 1)),
                  LAMBDA one : symbolic_simplify_binop(one.m, "TOKEN_SLASH", one.a, r.right))
        ELSE IF l.type = "NODE_BINOP" /\ l.op = "TOKEN_PLUS"
        THEN simplify_distribute(m, left, right, "TOKEN_PLUS")
        ELSE IF l.type = "NODE_BINOP" /\ l.op = "TOKEN_MINUS"
        THEN simplify_distribute(m, left, right, "TOKEN_MINUS")
        ELSE IF IsIntNumber(l) /\ IsIntNumber(r) /\ RIsInteger(RDiv(l.value, r.value))
        THEN FoldInt(m, left, right, RDiv(l.value, r.value))
        ELSE IF IsSqrt(r)
        THEN With(symbolic_clone(m, right), LAMBDA sqrt_b :
                 With(symbolic_clone(sqrt_b.m, r.args[1]), LAMBDA b_clone :
                     With(symbolic_simplify_binop(ast_free(b_clone.m, right), "TOKEN_STAR",
                                                  left, sqrt_b.a),
                          LAMBDA numerator :
                              symbolic_simplify_binop(numerator.m, "TOKEN_SLASH",
                                                      numerator.a, b_clone.a))))
        ELSE Alloc(m, BinOp("TOKEN_SLASH", left, right))

symbolic_simplify_binop(m_in, op, left0, right0) ==
    IF CutOff(m_in) THEN Alloc([m_in EXCEPT !.cut = TRUE], BinOp(op, left0, right0))
    ELSE IF left0 = NULL \/ right0 = NULL
    THEN Ret(ast_free(ast_free(Entered(m_in), left0), right0), NULL)
    ELSE LET m == Entered(m_in)
             swap == is_commutative(op)
                     /\ node_compare(Tree(m, left0), Tree(m, right0)) > 0
             left == IF swap THEN right0 ELSE left0
             right == IF swap THEN left0 ELSE right0
         IN  CASE op = "TOKEN_PLUS" -> simplify_plus(m, left, right)
               [] op = "TOKEN_MINUS" -> simplify_minus(m, left, right)
               [] op = "TOKEN_STAR" -> simplify_star(m, left, right)
               [] op = "TOKEN_SLASH" -> simplify_slash(m, left, right)
               [] op = "TOKEN_CARET" -> simplify_caret(m, left, right)
               [] OTHER -> Alloc(m, BinOp(op, left, right))

symbolic_simplify_unary(m, op, operand) ==
    IF operand = NULL THEN Ret(m, NULL) ELSE Alloc(m, Unary(op, operand))

\* "for (i = 2; i * i <= n; i++) if (n % (i * i) == 0) largest_root = i"
largest_root(n) ==
    LET roots == {i \in 1..n : i * i <= n /\ n % (i * i) = 0}
    IN  CHOOSE i \in roots : \A j \in roots : j <= i

\* "for (i...) ast_free(args[i]); free(args); return ast_create_number(str, 1)"
FreeArgs(m, args, str) == Alloc(ast_free_args(m, args, 1), ast_create_number(str, 1))

\* is_fraction(arg, &num, &denom) && matches_constant(num, "pi") && denom is the
\* number k, for a heap node n
IsPiOver(m, n, k) ==
    /\ n.type = "NODE_BINOP" /\ n.op = "TOKEN_SLASH"
    /\ matches_constant(m.heap[n.left], "pi")
    /\ m.heap[n.right].type = "NODE_NUMBER"
    /\ m.heap[n.right].value = RInt(k)

symbolic_simplify_function(m_in, func_type, args) ==
    LET m == Entered(m_in)
        arg == args[1]
        n == m.heap[arg]
        keep == Alloc(m, Func(func_type, args))
    IN  CASE CutOff(m_in) -> Alloc([m_in EXCEPT !.cut = TRUE], Func(func_type, args))
          [] Len(args) = 0 -> Alloc(m, Func(func_type, args))
          [] func_type = "TOKEN_SIN" ->
                IF symbolic_is_zero(n) \/ matches_constant(n, "pi") THEN FreeArgs(m, args, "0")
                ELSE IF IsPiOver(m, n, 2) THEN FreeArgs(m, args, "1")
                ELSE keep
          [] func_type = "TOKEN_COS" ->
                IF symbolic_is_zero(n) THEN FreeArgs(m, args, "1")
                ELSE IF matches_constant(n, "pi") THEN FreeArgs(m, args, "-1")
                ELSE IF IsPiOver(m, n, 2) THEN FreeArgs(m, args, "0")
                ELSE keep
          [] func_type = "TOKEN_TAN" ->
                IF symbolic_is_zero(n) \/ matches_constant(n, "pi") THEN FreeArgs(m, args, "0")
                ELSE IF IsPiOver(m, n, 4) THEN FreeArgs(m, args, "1")
                ELSE keep
          [] func_type = "TOKEN_LOG" ->
                IF symbolic_is_one(n) THEN FreeArgs(m, args, "0")
                ELSE IF matches_constant(n, "e") THEN FreeArgs(m, args, "1")
                ELSE keep
          [] func_type = "TOKEN_LOG10" ->
                IF symbolic_is_one(n) THEN FreeArgs(m, args, "0")
                ELSE IF IsIntNumber(n) /\ n.value = RInt(10) THEN FreeArgs(m, args, "1")
                ELSE keep
          [] func_type = "TOKEN_EXP" ->
                IF symbolic_is_zero(n) THEN FreeArgs(m, args, "1")
                ELSE IF symbolic_is_one(n) THEN Alloc(ast_free_args(m, args, 1), Const("e"))
                ELSE keep
          [] func_type = "TOKEN_ABS" ->
                IF symbolic_is_zero(n) THEN FreeArgs(m, args, "0")
                ELSE IF n.type = "NODE_NUMBER" /\ RSgn(n.value) >= 0 THEN Ret(m, arg)
                ELSE IF n.type = "NODE_NUMBER"
                THEN Alloc(ast_free_args(m, args, 1),
                           Num(RInt(RoundHalfEven(RAbs(n.value))), m.uaf))
                ELSE keep
          [] func_type = "TOKEN_SQRT" ->
                IF symbolic_is_zero(n) THEN FreeArgs(m, args, "0")
                ELSE IF symbolic_is_one(n) THEN FreeArgs(m, args, "1")
                ELSE IF IsIntNumber(n) /\ RSgn(n.value) > 0
                           /\ mpfr_sqrt_integer(n.value.n, global_precision) >= 0
                THEN Alloc(ast_free_args(m, args, 1),
                           Num(RInt(mpfr_sqrt_integer(n.value.n, global_precision)), 1))
                ELSE IF IsIntNumber(n) /\ RSgn(n.value) > 0 /\ largest_root(n.value.n) > 1
                THEN With(Alloc(ast_free_args(m, args, 1),
                                Num(RInt(mpfr_set_z(largest_root(n.value.n),
                                                    global_precision)), 1)),
                          LAMBDA root_node :
                     With(Alloc(root_node.m,
                                Num(RInt(mpfr_set_z(n.value.n \div (largest_root(n.value.n)
                                                        * largest_root(n.value.n)),
                                                    global_precision)), 1)),
                          LAMBDA remaining :
                     With(Alloc(remaining.m, Func("TOKEN_SQRT", <<remaining.a>>)),
                          LAMBDA sqrt_node :
                              Alloc(sqrt_node.m,
                                    BinOp("TOKEN_STAR", root_node.a, sqrt_node.a)))))
                ELSE keep
          [] OTHER -> keep

RECURSIVE symbolic_eval(_, _)
RECURSIVE symbolic_eval_args(_, _, _, _)

\* the loop "args[i] = symbolic_eval(node->function.args[i])"
symbolic_eval_args(m, args, i, as) ==
    IF i > Len(args) THEN Ret(m, as)
    ELSE With(symbolic_eval(m, args[i]), LAMBDA x :
             symbolic_eval_args(x.m, args, i + 1, Append(as, x.a)))

\* symbolic_eval(node): symbolic_clear_error() first, at every call
symbolic_eval(m, node) ==
    LET m0 == [m EXCEPT !.err = ""]
        n == m.heap[node]
    IN  IF node = NULL THEN Ret(m0, NULL)
        ELSE CASE n.type \in {"NODE_NUMBER", "NODE_CONSTANT"} -> symbolic_clone(m0, node)
               [] n.type = "NODE_BINOP" ->
                     With(symbolic_eval(m0, n.left), LAMBDA left :
                         With(symbolic_eval(left.m, n.right), LAMBDA right :
                             symbolic_simplify_binop(right.m, n.op, left.a, right.a)))
               [] n.type = "NODE_UNARY" ->
                     With(symbolic_eval(m0, n.operand), LAMBDA operand :
                         symbolic_simplify_unary(operand.m, n.op, operand.a))
               [] n.type = "NODE_FUNCTION" ->
                     With(symbolic_eval_args(m0, n.args, 1, <<>>), LAMBDA args :
                         symbolic_simplify_function(args.m, n.func_type, args.a))
               [] OTHER -> symbolic_clone([m0 EXCEPT !.err = "Unknown node type"], node)

\* a machine with nothing allocated
EmptyMachine(uaf) ==
    [heap |-> <<>>, freed |-> {}, dfree |-> FALSE, err |-> "", div0 |-> {}, uaf |-> uaf,
     calls |-> 0, cut |-> FALSE]

\* the tree the host passes in a call: the input x, the result of the first call
\* (for simplify(simplify(x))), or x with the operands of its root exchanged
SimplifyArg(which) ==
    CASE which = "first" -> sym_tree
      [] which = "again" -> sym_results.first
      [] OTHER -> BinOp(sym_tree.op, sym_tree.right, sym_tree.left)

\* ASTNode *out = symbolic_eval(in), a top-level call on a tree the parser built
Simplify(which, uaf) ==
    /\ sym_results[which] = NullNode
    /\ which # "first" => sym_results.first # NullNode
    /\ which = "swapped" => sym_tree.type = "NODE_BINOP" /\ is_commutative(sym_tree.op)
    /\ \E in \in {Store(EmptyMachine(uaf), SimplifyArg(which))} :
       \E out \in {symbolic_eval(in.m, in.a)} :
           /\ sym_m' = [out.m EXCEPT !.uaf = 0]
           /\ sym_last' = [which |-> which, arg |-> SimplifyArg(which), in |-> in.a,
                           out |-> out.a, mark |-> Len(in.m.heap)]
           /\ sym_results' = [sym_results EXCEPT ![which] = Tree(out.m, out.a)]
    /\ UNCHANGED <<sym_tree, notSymVars>>

\* the host's ast_free(in) after a call
ast_free_input ==
    /\ sym_last.which # "none"
    /\ sym_last.in \notin sym_m.freed
    /\ sym_m' = ast_free(sym_m, sym_last.in)
    /\ UNCHANGED <<sym_tree, sym_last, sym_results, notSymVars>>

\* the host's ast_free(out) after a call
ast_free_result ==
    /\ sym_last.which # "none"
    /\ sym_last.out # NULL
    /\ sym_last.out \notin sym_m.freed
    /\ sym_m' = ast_free(sym_m, sym_last.out)
    /\ UNCHANGED <<sym_tree, sym_last, sym_results, notSymVars>>

symbolic_get_last_error == sym_m.err

\* literals as the parser builds them: 0, 1, 2, 8 from TOKEN_INT, 2.0 from TOKEN_FLOAT
SymNumbers == {ast_create_number("0", 1), ast_create_number("1", 1),
               ast_create_number("2", 1), ast_create_number("8", 1),
               ast_create_number("2.0", 0)}

SymLeaves == SymNumbers \cup {Const("pi")}

SymOps == {"TOKEN_PLUS", "TOKEN_MINUS", "TOKEN_STAR", "TOKEN_SLASH", "TOKEN_CARET"}

SymFuncs == {"TOKEN_SQRT", "TOKEN_ABS", "TOKEN_COS", "TOKEN_SIN", "TOKEN_LOG", "TOKEN_EXP"}

\* an operator, a sign or a function applied to leaves
SymSmall ==
    SymLeaves
    \cup {BinOp(op, a, b) : op \in SymOps, a \in SymLeaves, b \in SymLeaves}
    \cup {Unary("TOKEN_MINUS", a) : a \in SymLeaves}
    \cup {Func(f, <<a>>) : f \in SymFuncs, a \in SymLeaves}

\* products and square roots, the operands of the like-term and radical rules
SymTerms ==
    {BinOp("TOKEN_STAR", a, b) : a \in SymLeaves, b \in SymLeaves}
    \cup {Func("TOKEN_SQRT", <<a>>) : a \in SymLeaves}

\* arguments of the rules for tan, log and log10
SymExact ==
    {Func("TOKEN_TAN", <<a>>) :
        a \in {ast_create_number("0", 1), Const("pi"), ast_create_number("2", 1),
               BinOp("TOKEN_SLASH", Const("pi"), ast_create_number("4", 1))}}
    \cup {Func("TOKEN_LOG10", <<a>>) :
        a \in {ast_create_number("1", 1), ast_create_number("10", 1), Const("pi")}}
    \cup {Func("TOKEN_LOG", <<Const("e")>>)}

\* trees on which one rule hands its result to another: a sum or a nested sum
\* over a square root, a product of square roots over a square root, a square
\* root under a square root, like terms over their common factor
SymCascade ==
    LET two == ast_create_number("2", 1)
        eight == ast_create_number("8", 1)
        pi == Const("pi")
        e == Const("e")
        sqrt(a) == Func("TOKEN_SQRT", <<a>>)
    IN  {BinOp("TOKEN_SLASH", BinOp("TOKEN_PLUS", pi, e), sqrt(two)),
         BinOp("TOKEN_SLASH", BinOp("TOKEN_PLUS", BinOp("TOKEN_MINUS", pi, e), two),
               sqrt(pi)),
         BinOp("TOKEN_SLASH", BinOp("TOKEN_STAR", sqrt(two), sqrt(eight)), sqrt(two)),
         BinOp("TOKEN_SLASH", ast_create_number("1", 1), sqrt(sqrt(two))),
         BinOp("TOKEN_SLASH",
               BinOp("TOKEN_PLUS", BinOp("TOKEN_STAR", pi, sqrt(two)),
                                   BinOp("TOKEN_STAR", e, sqrt(two))),
               sqrt(two)),
         BinOp("TOKEN_SLASH", BinOp("TOKEN_PLUS", sqrt(two), sqrt(eight)),
               BinOp("TOKEN_STAR", sqrt(two), sqrt(pi)))}

SymInputs ==
    SymSmall
    \cup SymExact
    \cup SymCascade
    \cup {BinOp(op, a, b) : op \in SymOps, a \in SymSmall, b \in SymLeaves}
    \cup {BinOp(op, a, b) : op \in SymOps, a \in SymLeaves, b \in SymSmall}
    \cup {BinOp(op, a, b) : op \in {"TOKEN_PLUS", "TOKEN_STAR", "TOKEN_SLASH"},
                            a \in SymTerms, b \in SymTerms}
    \cup {Func(f, <<a>>) : f \in SymFuncs, a \in SymSmall}
    \cup {Unary("TOKEN_MINUS", a) : a \in SymSmall}

----------------------------------------------------------------------------
(* Lexer (lexer/lexer.c, lexer/function_table.c)                            *)
(* The input text is a sequence of one-character strings; text[pos] of the  *)
(* C code is l.text[l.pos + 1] here, and "" stands for the character '\0'.  *)
(* A local buffer is the sequence of the characters written to it; the      *)
(* string handed on in a token is their concatenation.                      *)

MAX_INPUT_LENGTH == 1024

\* sizeof(buffer) in lexer_lex_number
NUMBER_BUFFER_SIZE == 256

\* sizeof(buffer) in lexer_lex_identifier
IDENT_BUFFER_SIZE == 64

NUL == ""

DigitChars == <<"0", "1", "2", "3", "4", "5", "6", "7", "8", "9">>

LetterChars ==
    {"a", "b", "c", "d", "e", "f", "g", "h", "i", "j", "k", "l", "m", "n", "o", "p", "q",
     "r", "s", "t", "u", "v", "w", "x", "y", "z", "A", "B", "C", "D", "E", "F", "G", "H",
     "I", "J", "K", "L", "M", "N", "O", "P", "Q", "R", "S", "T", "U", "V", "W", "X", "Y",
     "Z"}

isdigit(c) == \E i \in 1..10 : DigitChars[i] = c

isalpha(c) == c \in LetterChars

isalnum(c) == isalpha(c) \/ isdigit(c)

isspace(c) == c \in {" ", "\t", "\n", "\r", "\f"}

\* the C string the characters of a buffer spell
RECURSIVE Cat(_)
Cat(chars) ==
    IF chars = <<>> THEN ""
    ELSE IF Len(chars) = 1 THEN chars[1]
    ELSE Cat(SubSeq(chars, 1, Len(chars) \div 2))
             \o Cat(SubSeq(chars, Len(chars) \div 2 + 1, Len(chars)))

lexer_init(input) ==
    IF Len(input) > MAX_INPUT_LENGTH
    THEN [text |-> <<>>, pos |-> 0, current_char |-> NUL, input_length |-> 0]
    ELSE [text |-> input, pos |-> 0,
          current_char |-> IF Len(input) > 0 THEN input[1] ELSE NUL,
          input_length |-> Len(input)]

lexer_advance(l) ==
    IF l.pos >= l.input_length THEN l
    ELSE [l EXCEPT !.pos = l.pos + 1,
                   !.current_char = IF l.pos + 1 >= l.input_length THEN NUL
                                    ELSE l.text[l.pos + 2]]

lexer_peek(l) ==
    IF l.pos + 1 >= l.input_length THEN NUL ELSE l.text[l.pos + 2]

lexer_peek_ahead(l, offset) ==
    IF offset < 0 \/ l.pos + offset >= l.input_length THEN NUL
    ELSE l.text[l.pos + offset + 1]

RECURSIVE lexer_skip_whitespace(_)
lexer_skip_whitespace(l) ==
    IF l.current_char # NUL /\ isspace(l.current_char)
    THEN lexer_skip_whitespace(lexer_advance(l))
    ELSE l

\* what a lexing function hands back: the token and the lexer it leaves
Lexed(tok, l) == [tok |-> tok, l |-> l]

InvalidToken == Tok("TOKEN_INVALID", "")

\* "buffer[buf_idx++] = lexer->current_char; lexer_advance(lexer);"
PutChar(s) ==
    [s EXCEPT !.buffer = Append(s.buffer, s.l.current_char),
              !.buf_idx = s.buf_idx + 1,
              !.l = lexer_advance(s.l)]

\* the lexer after k calls of lexer_advance
Advanced(l, k) ==
    LET p == IF l.pos + k >= l.input_length THEN l.input_length ELSE l.pos + k
    IN  [l EXCEPT !.pos = p,
                  !.current_char = IF p >= l.input_length THEN NUL ELSE l.text[p + 1]]

\* the loop over the integer and fractional part, started at lexer l with an
\* empty buffer.  n is the number of characters in a row the loop condition
\* admits; bad holds the positions at which the body returns TOKEN_INVALID
\* (a second '.', or a '.' with no digit before or after it).  The loop stops
\* before the first of them, which leaves the lexer where it stands; invalid
\* marks that early return.
lex_number_mantissa(l) ==
    LET room == NUMBER_BUFFER_SIZE - 1
        NumChar(i) == isdigit(l.text[i]) \/ l.text[i] = "."
        n == CHOOSE k \in 0..room :
                 /\ l.pos + k <= l.input_length
                 /\ \A i \in (l.pos + 1)..(l.pos + k) : NumChar(i)
                 /\ \/ k = room
                    \/ l.pos + k = l.input_length
                    \/ ~NumChar(l.pos + k + 1)
        bad == {i \in (l.pos + 1)..(l.pos + n) :
                    /\ l.text[i] = "."
                    /\ \/ \E j \in (l.pos + 1)..(i - 1) : l.text[j] = "."
                       \/ i = l.pos + 1 /\ ~isdigit(lexer_peek(l))}
        stop == IF bad = {} THEN l.pos + n
                ELSE (CHOOSE i \in bad : \A j \in bad : i <= j) - 1
        taken == SubSeq(l.text, l.pos + 1, stop)
    IN  [l |-> Advanced(l, stop - l.pos),
         buffer |-> taken,
         buf_idx |-> Len(taken),
         has_dot |-> IF \E i \in 1..Len(taken) : taken[i] = "." THEN 1 ELSE 0,
         has_exponent |-> 0,
         digit_count |-> Cardinality({i \in 1..Len(taken) : isdigit(taken[i])}),
         exp_digit_count |-> 0,
         invalid |-> bad # {}]

\* the loop over the exponent digits
RECURSIVE lex_number_exp_digits(_)
lex_number_exp_digits(s) ==
    IF /\ isdigit(s.l.current_char)
       /\ s.l.current_char # NUL
       /\ s.buf_idx < NUMBER_BUFFER_SIZE - 1
    THEN lex_number_exp_digits(PutChar([s EXCEPT !.exp_digit_count = s.exp_digit_count + 1]))
    ELSE s

\* the exponent digits and the test "exp_digit_count == 0"
lex_number_exp_checked(s) ==
    With(lex_number_exp_digits(s), LAMBDA d :
        IF d.exp_digit_count = 0 THEN [d EXCEPT !.invalid = TRUE] ELSE d)

\* the block "Check for scientific notation"
lex_number_exponent(s) ==
    LET next == lexer_peek(s.l)
        after_next == lexer_peek_ahead(s.l, 2)
    IN  IF /\ s.l.current_char \in {"e", "E"}
           /\ \/ isdigit(next)
              \/ next \in {"+", "-"} /\ isdigit(after_next)
        THEN IF s.buf_idx >= NUMBER_BUFFER_SIZE - 1
             THEN [s EXCEPT !.has_exponent = 1, !.invalid = TRUE]
             ELSE With(PutChar([s EXCEPT !.has_exponent = 1]), LAMBDA a :
                      IF a.l.current_char \in {"+", "-"}
                      THEN IF a.buf_idx >= NUMBER_BUFFER_SIZE - 1
                           THEN [a EXCEPT !.invalid = TRUE]
                           ELSE lex_number_exp_checked(PutChar(a))
                      ELSE lex_number_exp_checked(a))
        ELSE s

\* digits without its leading zeros
StripZeros(digits) ==
    LET z == CHOOSE k \in 0..Len(digits) :
                 /\ \A i \in 1..k : digits[i] = "0"
                 /\ k = Len(digits) \/ digits[k + 1] # "0"
    IN  SubSeq(digits, z + 1, Len(digits))

DigitVal(c) == CHOOSE n \in 0..9 : DigitChars[n + 1] = c

\* 0.a < 0.b for two digit sequences read as decimal fractions
RECURSIVE DigitsLess(_, _)
DigitsLess(a, b) ==
    IF a = <<>> /\ b = <<>> THEN FALSE
    ELSE LET x == IF a = <<>> THEN 0 ELSE DigitVal(Head(a))
             y == IF b = <<>> THEN 0 ELSE DigitVal(Head(b))
         IN  IF x # y THEN x < y
             ELSE DigitsLess(IF a = <<>> THEN a ELSE Tail(a),
                             IF b = <<>> THEN b ELSE Tail(b))

\* the index of the first character of chars that is in set, Len(chars) + 1
\* when there is none
FirstIn(chars, set) ==
    CHOOSE k \in 1..(Len(chars) + 1) :
        /\ \A i \in 1..(k - 1) : chars[i] \notin set
        /\ k = Len(chars) + 1 \/ chars[k] \in set

\* the characters before / after the first character of chars that is in set
Before(chars, set) == SubSeq(chars, 1, FirstIn(chars, set) - 1)

After(chars, set) == SubSeq(chars, FirstIn(chars, set) + 1, Len(chars))

RECURSIVE DecimalOf(_, _)
DecimalOf(digits, acc) ==
    IF digits = <<>> THEN acc
    ELSE DecimalOf(Tail(digits), 10 * acc + DigitVal(Head(digits)))

\* the digits of INT_MAX, DBL_MAX = 1.7976931348623157e308 and
\* DBL_MIN = 2.2250738585072014e-308
INT_MAX_DIGITS == <<"2", "1", "4", "7", "4", "8", "3", "6", "4", "7">>

DBL_MAX_DIGITS ==
    <<"1", "7", "9", "7", "6", "9", "3", "1", "3", "4", "8", "6", "2", "3", "1", "5", "7">>

DBL_MIN_DIGITS ==
    <<"2", "2", "2", "5", "0", "7", "3", "8", "5", "8", "5", "0", "7", "2", "0", "1", "4">>

\* "strtol(buffer, NULL, 10)" sets ERANGE or gives a value above INT_MAX; the
\* buffer holds digits only
strtol_exceeds_int(buffer) ==
    LET d == StripZeros(buffer)
    IN  Len(d) > 10 \/ (Len(d) = 10 /\ DigitsLess(INT_MAX_DIGITS, d))

\* the value of the exponent part of buffer; beyond four digits its size no
\* longer matters to the range test
ExponentOf(buffer) ==
    LET e == After(buffer, {"e", "E"})
        d == StripZeros(IF e # <<>> /\ Head(e) \in {"+", "-"} THEN Tail(e) ELSE e)
        v == IF Len(d) > 4 THEN 99999 ELSE DecimalOf(d, 0)
    IN  IF e # <<>> /\ Head(e) = "-" THEN 0 - v ELSE v

\* the significant digits of buffer's mantissa
Significand(buffer) ==
    LET m == Before(buffer, {"e", "E"})
    IN  StripZeros(Before(m, {"."}) \o After(m, {"."}))

\* the power of ten of the first significant digit
LeadingExponent(buffer) ==
    LET m == Before(buffer, {"e", "E"})
        ip == StripZeros(Before(m, {"."}))
        fp == After(m, {"."})
    IN  IF ip # <<>> THEN Len(ip) - 1 + ExponentOf(buffer)
        ELSE ExponentOf(buffer) - (Len(fp) - Len(StripZeros(fp))) - 1

\* "errno == ERANGE || isinf(val) || isnan(val)" after strtod(buffer, NULL):
\* the literal lies above DBL_MAX, or below DBL_MIN without being zero
strtod_out_of_range(buffer) ==
    LET sig == Significand(buffer)
        x == LeadingExponent(buffer)
    IN  /\ sig # <<>>
        /\ \/ x > 308
           \/ x = 308 /\ DigitsLess(DBL_MAX_DIGITS, sig)
           \/ x < 0 - 308
           \/ x = 0 - 308 /\ DigitsLess(sig, DBL_MIN_DIGITS)

lexer_lex_number(l) ==
    IF l.current_char = "." /\ ~isdigit(lexer_peek(l)) THEN Lexed(InvalidToken, l)
    ELSE With(lex_number_mantissa(l), LAMBDA m :
        IF m.invalid \/ m.digit_count = 0 THEN Lexed(InvalidToken, m.l)
        ELSE With(lex_number_exponent(m), LAMBDA s :
            IF s.invalid THEN Lexed(InvalidToken, s.l)
            ELSE IF s.has_dot = 1 \/ s.has_exponent = 1
            THEN IF strtod_out_of_range(s.buffer) THEN Lexed(InvalidToken, s.l)
                 ELSE Lexed(Tok("TOKEN_FLOAT", Cat(s.buffer)), s.l)
            ELSE IF strtol_exceeds_int(s.buffer)
            THEN Lexed(Tok("TOKEN_FLOAT", Cat(s.buffer)), s.l)
            ELSE Lexed(Tok("TOKEN_INT", Cat(s.buffer)), s.l)))

\* static const FunctionInfo function_table[], in order; the constants' entries
\* name TOKEN_PI, TOKEN_E, ... where tokens.h has the one TOKEN_CONSTANT
function_table ==
    <<<<"sin", "TOKEN_SIN", 1>>, <<"cos", "TOKEN_COS", 1>>, <<"tan", "TOKEN_TAN", 1>>,
      <<"asin", "TOKEN_ASIN", 1>>, <<"arcsin", "TOKEN_ASIN", 1>>,
      <<"acos", "TOKEN_ACOS", 1>>, <<"arccos", "TOKEN_ACOS", 1>>,
      <<"atan", "TOKEN_ATAN", 1>>, <<"arctan", "TOKEN_ATAN", 1>>,
      <<"atan2", "TOKEN_ATAN2", 2>>, <<"arctan2", "TOKEN_ATAN2", 2>>,
      <<"sinh", "TOKEN_SINH", 1>>, <<"cosh", "TOKEN_COSH", 1>>, <<"tanh", "TOKEN_TANH", 1>>,
      <<"asinh", "TOKEN_ASINH", 1>>, <<"arcsinh", "TOKEN_ASINH", 1>>,
      <<"acosh", "TOKEN_ACOSH", 1>>, <<"arccosh", "TOKEN_ACOSH", 1>>,
      <<"atanh", "TOKEN_ATANH", 1>>, <<"arctanh", "TOKEN_ATANH", 1>>,
      <<"sqrt", "TOKEN_SQRT", 1>>, <<"log", "TOKEN_LOG", 1>>, <<"ln", "TOKEN_LOG", 1>>,
      <<"log10", "TOKEN_LOG10", 1>>, <<"exp", "TOKEN_EXP", 1>>, <<"abs", "TOKEN_ABS", 1>>,
      <<"floor", "TOKEN_FLOOR", 1>>, <<"ceil", "TOKEN_CEIL", 1>>, <<"pow", "TOKEN_POW", 2>>,
      <<"pi", "TOKEN_CONSTANT", 0 - 1>>, <<"PI", "TOKEN_CONSTANT", 0 - 1>>,
      <<"e", "TOKEN_CONSTANT", 0 - 1>>, <<"E", "TOKEN_CONSTANT", 0 - 1>>,
      <<"ln2", "TOKEN_CONSTANT", 0 - 1>>, <<"LN2", "TOKEN_CONSTANT", 0 - 1>>,
      <<"ln10", "TOKEN_CONSTANT", 0 - 1>>, <<"LN10", "TOKEN_CONSTANT", 0 - 1>>,
      <<"gamma", "TOKEN_CONSTANT", 0 - 1>>, <<"GAMMA", "TOKEN_CONSTANT", 0 - 1>>>>

\* the index of the first entry called name, 0 for the NULL result
function_table_lookup(name) ==
    IF \E i \in 1..Len(function_table) : function_table[i][1] = name
    THEN CHOOSE i \in 1..Len(function_table) :
             /\ function_table[i][1] = name
             /\ \A j \in 1..(i - 1) : function_table[j][1] # name
    ELSE 0

\* the loop over the letters, digits and underscores of an identifier
RECURSIVE lex_identifier_chars(_)
lex_identifier_chars(s) ==
    IF /\ isalnum(s.l.current_char) \/ s.l.current_char = "_"
       /\ s.l.current_char # NUL
       /\ s.buf_idx < IDENT_BUFFER_SIZE - 1
    THEN lex_identifier_chars(PutChar(s))
    ELSE s

lexer_lex_identifier(l) ==
    With(lex_identifier_chars([l |-> l, buffer |-> <<>>, buf_idx |-> 0]), LAMBDA s :
        LET func_info == function_table_lookup(Cat(s.buffer))
        IN  IF func_info # 0
            THEN IF function_table[func_info][2] = "TOKEN_CONSTANT"
                 THEN Lexed(Tok("TOKEN_CONSTANT", Cat(s.buffer)), s.l)
                 ELSE Lexed(Tok(function_table[func_info][2], ""), s.l)
            ELSE Lexed(Tok("TOKEN_IDENTIFIER", Cat(s.buffer)), s.l))

\* an operator of one character, or of two when '=' follows
Operator(l, type_with_eq, type_alone) ==
    IF lexer_peek(l) = "="
    THEN Lexed(Tok(type_with_eq, ""), lexer_advance(lexer_advance(l)))
    ELSE Lexed(Tok(type_alone, ""), lexer_advance(l))

lexer_get_next_token(l0) ==
    With(lexer_skip_whitespace(l0), LAMBDA l :
        LET c == l.current_char
        IN  IF c = NUL THEN Lexed(Tok("TOKEN_EOF", ""), l)
            ELSE IF isdigit(c) THEN lexer_lex_number(l)
            ELSE IF c = "."
            THEN IF isdigit(lexer_peek(l)) THEN lexer_lex_number(l)
                 ELSE Lexed(InvalidToken, lexer_advance(l))
            ELSE IF isalpha(c) \/ c = "_" THEN lexer_lex_identifier(l)
            ELSE CASE c = "+" -> Lexed(Tok("TOKEN_PLUS", ""), lexer_advance(l))
                   [] c = "-" -> Lexed(Tok("TOKEN_MINUS", ""), lexer_advance(l))
                   [] c = "*" -> Lexed(Tok("TOKEN_STAR", ""), lexer_advance(l))
                   [] c = "/" -> Lexed(Tok("TOKEN_SLASH", ""), lexer_advance(l))
                   [] c = "^" -> Lexed(Tok("TOKEN_CARET", ""), lexer_advance(l))
                   [] c = "(" -> Lexed(Tok("TOKEN_LPAREN", ""), lexer_advance(l))
                   [] c = ")" -> Lexed(Tok("TOKEN_RPAREN", ""), lexer_advance(l))
                   [] c = "," -> Lexed(Tok("TOKEN_COMMA", ""), lexer_advance(l))
                   [] c = "=" -> Operator(l, "TOKEN_EQ", "TOKEN_INVALID")
                   [] c = "!" -> Operator(l, "TOKEN_NEQ", "TOKEN_INVALID")
                   [] c = "<" -> Operator(l, "TOKEN_LTE", "TOKEN_LT")
                   [] c = ">" -> Operator(l, "TOKEN_GTE", "TOKEN_GT")
                   [] OTHER -> Lexed(InvalidToken, lexer_advance(l)))

\* history: the lexer has handed out TOKEN_EOF
LexDone == lex_tokens # <<>> /\ lex_tokens[Len(lex_tokens)].type = "TOKEN_EOF"

\* Token token = lexer_get_next_token(&lexer), until TOKEN_EOF has been handed out
NextToken ==
    /\ ~LexDone
    /\ \E r \in {lexer_get_next_token(lexer)} :
           /\ lexer' = r.l
           /\ lex_tokens' = Append(lex_tokens, r.tok)
    /\ UNCHANGED <<parseVars, notLexVars>>

\* parser_init(&parser, &lexer); parser_parse_expression(&parser): the parser
\* draws from the lexer the tokens recorded in lex_tokens
ParseLexed ==
    /\ LexDone
    /\ parse_calls = 0
    /\ \E r \in {parser_parse_expression(
                     parser_init(SubSeq(lex_tokens, 1, Len(lex_tokens) - 1)))} :
           /\ parser' = r.p
           /\ parse_result' = r.ast
    /\ parse_calls' = 1
    /\ UNCHANGED <<lexVars, notLexVars>>

\* the longest input text lexed, over the characters of LexAlphabet
MaxInputLen == 4

LexAlphabet == {"1", ".", "e", "+", "#", " "}

\* a literal of n digits
Digits(n) == [i \in 1..n |-> "1"]

\* further inputs: literals at the limits of the number buffer, of int and of
\* double, and texts that use the other token kinds
LexSpecial ==
    {Digits(NUMBER_BUFFER_SIZE - 2), Digits(NUMBER_BUFFER_SIZE - 1),
     Digits(NUMBER_BUFFER_SIZE), Digits(NUMBER_BUFFER_SIZE + 1),
     <<"2", "1", "4", "7", "4", "8", "3", "6", "4", "7">>,
     <<"2", "1", "4", "7", "4", "8", "3", "6", "4", "8">>,
     <<"1", "e", "9", "9", "9">>, <<"1", "e", "-", "9", "9", "9">>,
     <<"1", "E", "3", "0", "8">>, <<"2", "e", "3", "0", "8">>, <<"0", ".", "0", "e", "9", "9", "9">>,
     <<"1", ".", "1", ".", "1">>, <<"1", "e", "+", "1", "1">>, <<"1", "e", "-">>,
     <<"s", "q", "r", "t", "(", "2", ")">>, <<"2", "p", "i">>, <<"x", "_", "1">>,
     <<"p", "o", "w", "(", "2", ",", "3", ")">>,
     <<"1", "<", "=", "2">>, <<"1", "<", "2">>, <<"1", ">", "=", "2">>, <<"1", ">", "2">>,
     <<"1", "=", "=", "2">>, <<"1", "!", "=", "2">>, <<"1", "=", "2">>, <<"1", "!", "2">>,
     <<"1", "*", "2", "/", "3", "^", "4", "-", "5">>, <<"_", "\t", "1">>,
     <<"1", ".">> \o Digits(NUMBER_BUFFER_SIZE - 2) \o <<".", "1">>}

LexInputs == UNION {[1..n -> LexAlphabet] : n \in 0..MaxInputLen} \cup LexSpecial

\* no text has been handed to a lexer
LexIdle ==
    /\ lexer = lexer_init(<<>>)
    /\ lex_tokens = <<>>

----------------------------------------------------------------------------
(* Exact rational numbers (core/rational.c)                                 *)

\* the Rational objects of a host: each is an operand or the result of a call,
\* or both at once ("result can be same as a or b")
RatSlots == {"a", "b"}

\* struct Rational: numerator and denominator (mpz_t, of unbounded size)
Rational(num, denom) == [numerator |-> num, denominator |-> denom]

\* a Rational whose mpz_t members are not initialised (before rational_init*,
\* after rational_clear)
NoRational == [numerator |-> 0, denominator |-> 0]

\* mpz_gcd: the greatest common divisor, never negative, gcd(0, d) = |d|
mpz_gcd(a, b) == Gcd(AbsInt(a), AbsInt(b))

\* mpz_divexact(q, n, d), for d dividing n
mpz_divexact(n, d) == IF n < 0 THEN 0 - ((0 - n) \div d) ELSE n \div d

\* mpz_sgn
mpz_sgn(x) == IF x < 0 THEN 0 - 1 ELSE IF x > 0 THEN 1 ELSE 0

\* "if (sign < 0) { mpz_neg(numerator); mpz_neg(denominator); }"
NegateBoth(r) == Rational(0 - r.numerator, 0 - r.denominator)

rational_simplify_NoReduce(r) == r

\* rational_simplify(r): divide both members by their gcd, then make the
\* denominator positive
rational_simplify(r) ==
    LET gcd == mpz_gcd(r.numerator, r.denominator)
        q == Rational(mpz_divexact(r.numerator, gcd), mpz_divexact(r.denominator, gcd))
    IN  IF mpz_sgn(q.denominator) < 0 THEN NegateBoth(q) ELSE q

\* the members rational_init_from_int, rational_init_from_mpz and
\* rational_set_from_int store before they call rational_simplify
FromInt(num, denom) ==
    IF denom < 0 THEN NegateBoth(Rational(num, denom)) ELSE Rational(num, denom)

\* the numerator and denominator an arithmetic function computes in its
\* temporaries, before it stores them in result
RawAdd(a, b) == Rational(a.numerator * b.denominator + b.numerator * a.denominator,
                         a.denominator * b.denominator)
RawSub(a, b) == Rational(a.numerator * b.denominator - b.numerator * a.denominator,
                         a.denominator * b.denominator)
RawMul(a, b) == Rational(a.numerator * b.numerator, a.denominator * b.denominator)
RawDiv(a, b) == Rational(a.numerator * b.denominator, a.denominator * b.numerator)

\* rational_is_zero, rational_is_integer
rational_is_zero(r) == mpz_sgn(r.numerator) = 0
rational_is_integer(r) == r.denominator = 1

\* the largest number of calls a host makes, and the largest member an operand
\* of a further call has
MaxRatSteps == 4
MaxRatMember == 40
MaxRatInt == 3

RatInts == (0 - MaxRatInt)..MaxRatInt

Initialised(x) == rat[x] # NoRational

Operand(x) ==
    /\ Initialised(x)
    /\ AbsInt(rat[x].numerator) <= MaxRatMember
    /\ rat[x].denominator <= MaxRatMember

\* the host has made a call that stored the members raw in slot x, then v
RatStored(op, x, raw, v) ==
    /\ rat_steps < MaxRatSteps
    /\ rat' = [rat EXCEPT ![x] = v]
    /\ rat_last' = [op |-> op, slot |-> x, raw |-> raw]
    /\ rat_steps' = rat_steps + 1
    /\ UNCHANGED notRatVars

\* void rational_init(Rational *r)
rational_init(x) ==
    /\ ~Initialised(x)
    /\ RatStored("rational_init", x, Rational(0, 1), Rational(0, 1))

\* void rational_init_from_int(Rational *r, long num, long denom), denom # 0
rational_init_from_int(x, num, denom) ==
    /\ ~Initialised(x)
    /\ denom # 0
    /\ RatStored("rational_init_from_int", x, Rational(num, denom),
                 rational_simplify(FromInt(num, denom)))

\* void rational_set_from_int(Rational *r, long num, long denom), denom # 0
rational_set_from_int(x, num, denom) ==
    /\ Initialised(x)
    /\ denom # 0
    /\ RatStored("rational_set_from_int", x, Rational(num, denom),
                 rational_simplify(FromInt(num, denom)))

\* void rational_clear(Rational *r)
rational_clear(x) ==
    /\ Initialised(x)
    /\ RatStored("rational_clear", x, NoRational, NoRational)

\* void rational_set(Rational *dest, const Rational *src)
rational_set(dest, src) ==
    /\ Initialised(dest) /\ Initialised(src)
    /\ RatStored("rational_set", dest, rat[src], rat[src])

\* void rational_add(Rational *result, const Rational *a, const Rational *b);
\* result may be a or b: the sum is computed in temporaries first
rational_add(result, a, b) ==
    /\ Initialised(result) /\ Operand(a) /\ Operand(b)
    /\ RatStored("rational_add", result, RawAdd(rat[a], rat[b]),
                 rational_simplify(RawAdd(rat[a], rat[b])))

\* void rational_sub(Rational *result, const Rational *a, const Rational *b)
rational_sub(result, a, b) ==
    /\ Initialised(result) /\ Operand(a) /\ Operand(b)
    /\ RatStored("rational_sub", result, RawSub(rat[a], rat[b]),
                 rational_simplify(RawSub(rat[a], rat[b])))

\* void rational_mul(Rational *result, const Rational *a, const Rational *b)
rational_mul(result, a, b) ==
    /\ Initialised(result) /\ Operand(a) /\ Operand(b)
    /\ RatStored("rational_mul", result, RawMul(rat[a], rat[b]),
                 rational_simplify(RawMul(rat[a], rat[b])))

\* void rational_div(Rational *result, const Rational *a, const Rational *b),
\* b not zero: a negative denominator is negated away before rational_simplify
rational_div(result, a, b) ==
    /\ Initialised(result) /\ Operand(a) /\ Operand(b)
    /\ ~rational_is_zero(rat[b])
    /\ RatStored("rational_div", result, RawDiv(rat[a], rat[b]),
                 rational_simplify(
                     IF mpz_sgn(RawDiv(rat[a], rat[b]).denominator) < 0
                     THEN NegateBoth(RawDiv(rat[a], rat[b]))
                     ELSE RawDiv(rat[a], rat[b])))

\* void rational_neg(Rational *result, const Rational *r): no rational_simplify
rational_neg(result, r) ==
    /\ Initialised(result) /\ Initialised(r)
    /\ RatStored("rational_neg", result,
                 Rational(0 - rat[r].numerator, rat[r].denominator),
                 Rational(0 - rat[r].numerator, rat[r].denominator))

\* no Rational exists yet
RatIdle ==
    /\ rat = [x \in RatSlots |-> NoRational]
    /\ rat_last = [op |-> "none", slot |-> "none", raw |-> NoRational]
    /\ rat_steps = 0

----------------------------------------------------------------------------
(* Specifications                                                           *)

\* precision_init and a registry nobody has touched
ConstIdle ==
    /\ global_precision = DEFAULT_PRECISION
    /\ cached_constants = [t \in ConstantType |-> ZeroCachedConstant]
    /\ fetched = {}
    /\ prec_changed = FALSE
    /\ const_steps = 0

\* the evaluator's and the function module's statics as the program starts
EvalStatics ==
    /\ strict_mode = 0
    /\ strict_domain_mode = 0
    /\ ev_last_error = ""
    /\ fn_last_error = ""
    /\ ev_node = Num(RInt(0), 1)
    /\ ev_result = VInt(0)
    /\ ev_raised = FALSE
    /\ ev_fn_failed = FALSE
    /\ ev_calls = 0

EvalIdle ==
    /\ EvalStatics
    /\ ev_queue = <<>>

\* no input has been handed to a parser
ParseIdle ==
    /\ parser = parser_init(<<>>)
    /\ parse_result = NullNode
    /\ parse_calls = 0

\* nothing has been handed to the simplifier
SymStart ==
    /\ sym_m = EmptyMachine(0)
    /\ sym_last = [which |-> "none", arg |-> NullNode, in |-> NULL, out |-> NULL, mark |-> 0]
    /\ sym_results = [first |-> NullNode, again |-> NullNode, swapped |-> NullNode]

SymIdle ==
    /\ sym_tree = NullNode
    /\ SymStart

\* the constant registry and the precision setting
ConstInit ==
    /\ LexIdle
    /\ ConstIdle
    /\ RatIdle
    /\ EvalIdle
    /\ ParseIdle
    /\ SymIdle

ConstNext ==
    \/ constants_init
    \/ \E t \in ConstantType : constants_get_by_type(t)
    \/ constants_clear_cache
    \/ \E p \in PrecRequests : set_precision(p)

SpecConst == ConstInit /\ [][ConstNext]_vars

\* the numeric evaluator: the host evaluates two trees, one after the other
EvalInit ==
    /\ LexIdle
    /\ ConstIdle
    /\ RatIdle
    /\ EvalStatics
    /\ ev_queue \in {<<a, b>> : a \in EvalFirst, b \in EvalInputs}
    /\ ParseIdle
    /\ SymIdle

EvalNext ==
    \/ Evaluate
    \/ \E b \in {0, 1} : evaluator_set_strict_mode(b)
    \/ \E b \in {0, 1} : functions_set_strict_domain(b)

SpecEval == EvalInit /\ [][EvalNext]_vars

\* the parser: the host initialises a parser over a token sequence, may configure
\* the maximum depth, and parses once
ParseInit ==
    /\ LexIdle
    /\ ConstIdle
    /\ RatIdle
    /\ EvalIdle
    /\ parser \in {parser_init(ts) : ts \in ParseInputs}
    /\ parse_result = NullNode
    /\ parse_calls = 0
    /\ SymIdle

ParseNext ==
    \/ \E d \in MaxDepths : parser_set_max_recursion_depth(d)
    \/ Parse

SpecParse == ParseInit /\ [][ParseNext]_vars

\* the simplifier: the host simplifies a tree x, then the result again and x with
\* its operands exchanged, and may free the argument and the result of a call
SymInit ==
    /\ LexIdle
    /\ ConstIdle
    /\ RatIdle
    /\ EvalIdle
    /\ ParseIdle
    /\ sym_tree \in SymInputs
    /\ SymStart

SymNext ==
    \/ \E which \in {"first", "again", "swapped"}, uaf \in {0, 1} : Simplify(which, uaf)
    \/ ast_free_input
    \/ ast_free_result

SpecSym == SymInit /\ [][SymNext]_vars

\* the largest radicand handed to sqrt
MaxRadicand == 40

\* the host builds the tree of "sqrt(n)": ast_create_number stores the literal in
\* global_precision bits
ParseSqrt(n) ==
    /\ sym_tree = NullNode
    /\ sym_tree' = Func("TOKEN_SQRT", <<Num(RInt(mpfr_set_z(n, global_precision)), 1)>>)
    /\ UNCHANGED <<sym_m, sym_last, sym_results, notSymVars>>

\* square roots of integer literals under the precisions the host can set
SqrtNext ==
    \/ \E prec \in PrecRequests : sym_tree = NullNode /\ set_precision(prec)
    \/ \E n \in 1..MaxRadicand : ParseSqrt(n)
    \/ \E uaf \in {0, 1} : sym_tree # NullNode /\ Simplify("first", uaf)
    \/ ast_free_input
    \/ ast_free_result

SpecSqrt == ConstInit /\ [][SqrtNext]_vars

\* the grammar: the host parses a token sequence with the default maximum depth
GrammarInit ==
    /\ LexIdle
    /\ ConstIdle
    /\ RatIdle
    /\ EvalIdle
    /\ parser \in {parser_init(ts) : ts \in GrammarInputs}
    /\ parse_result = NullNode
    /\ parse_calls = 0
    /\ SymIdle

GrammarNext == Parse

SpecGrammar == GrammarInit /\ [][GrammarNext]_vars

\* the lexer: the host initialises a lexer over a text, draws its tokens up to
\* TOKEN_EOF, and parses them
LexInit ==
    /\ ConstIdle
    /\ RatIdle
    /\ EvalIdle
    /\ ParseIdle
    /\ SymIdle
    /\ lexer \in {lexer_init(input) : input \in LexInputs}
    /\ lex_tokens = <<>>

LexNext ==
    \/ NextToken
    \/ ParseLexed

SpecLex == LexInit /\ [][LexNext]_vars

\* the longest text over TermAlphabet parsed to its end
MaxTermLen == 4

TermAlphabet == {"2", "(", ")", "e"}

\* texts with the loops and recursions of the grammar: implicit multiplications
\* in a row, a chain of signs and of '^', a call, operators, an unknown character
TermSpecial ==
    {<<"2", "(", "2", ")", "(", "2", ")", "e">>, <<"-", "-", "-", "2">>,
     <<"2", "^", "2", "^", "2">>, <<"s", "q", "r", "t", "(", "2", ")", "2">>,
     <<"2", "+", "2", "*", "2", "<", "2">>, <<"2", " ", "2", "#", "2">>,
     <<"p", "o", "w", "(", "2", ",", "2", ")">>}

TermInputs == UNION {[1..n -> TermAlphabet] : n \in 0..MaxTermLen} \cup TermSpecial

TermInit ==
    /\ ConstIdle
    /\ RatIdle
    /\ EvalIdle
    /\ ParseIdle
    /\ SymIdle
    /\ lexer \in {lexer_init(input) : input \in TermInputs}
    /\ lex_tokens = <<>>

\* ParseLexed can be taken: its two guards
ParseLexedEnabled == LexDone /\ parse_calls = 0

\* the host is sequential code: the call that comes next is made. The second
\* condition is WF_vars(ParseLexed) with ENABLED <<ParseLexed>>_vars written out.
SpecTerm ==
    /\ TermInit
    /\ [][LexNext]_vars
    /\ WF_vars(NextToken)
    /\ ([]<>~ParseLexedEnabled \/ []<><<ParseLexed>>_vars)

\* a host of the rational module: it initialises its objects, computes with
\* them and clears them
RatNext ==
    \/ \E x \in RatSlots : rational_init(x)
    \/ \E x \in RatSlots, num \in RatInts, denom \in RatInts :
           rational_init_from_int(x, num, denom)
    \/ \E x \in RatSlots, num \in RatInts, denom \in RatInts :
           rational_set_from_int(x, num, denom)
    \/ \E x \in RatSlots : rational_clear(x)
    \/ \E dest \in RatSlots, src \in RatSlots : rational_set(dest, src)
    \/ \E result \in RatSlots, a \in RatSlots, b \in RatSlots : rational_add(result, a, b)
    \/ \E result \in RatSlots, a \in RatSlots, b \in RatSlots : rational_sub(result, a, b)
    \/ \E result \in RatSlots, a \in RatSlots, b \in RatSlots : rational_mul(result, a, b)
    \/ \E result \in RatSlots, a \in RatSlots, b \in RatSlots : rational_div(result, a, b)
    \/ \E result \in RatSlots, r \in RatSlots : rational_neg(result, r)

SpecRat == ConstInit /\ [][RatNext]_vars


----------------------------------------------------------------------------
\* C1: parsing fails with a parse error (error flag set, no AST returned) for every
\* input whose expression nesting depth (nested parentheses, nested function-call
\* arguments, chained unary operators, chained '^') exceeds the parser's configured
\* maximum depth.
C1_DeepNestingFails ==
    (parse_calls > 0 /\ parser.deepest > parser.max_depth)
    => (parser_has_error # 0 /\ parse_result = NullNode)

----------------------------------------------------------------------------
\* C2: after a top-level evaluator_eval call returns, the evaluator's last-error
\* string is non-empty exactly when some node evaluated during that call raised an
\* error (division by zero, unknown constant, unknown operator, failed function),
\* wherever that node sits in the tree; an earlier call's error is never reported.
C2_LastErrorIffRaised ==
    ev_calls > 0 => ((evaluator_get_last_error # "") <=> (ev_raised \/ ev_fn_failed))

----------------------------------------------------------------------------
\* the functions whose domain the claim lists
DomainFuncs == {"TOKEN_SQRT", "TOKEN_LOG", "TOKEN_LOG10", "TOKEN_ASIN", "TOKEN_ACOS",
                "TOKEN_ACOSH", "TOKEN_ATANH"}

\* node is a call of such a function whose evaluated argument lies outside its domain
DomainViolated(node) ==
    /\ node.type = "NODE_FUNCTION"
    /\ node.func_type \in DomainFuncs
    /\ Len(node.args) = 1
    /\ LET st == [last_error |-> "", fn_error |-> "", raised |-> FALSE,
                  fn_failed |-> FALSE, exact |-> TRUE]
           a == evaluator_eval(node.args[1], st, 0, 0)
       IN  a.st.exact /\ a.v.k = "fin" /\ functions_check_domain(node.func_type, <<a.v>>)

\* C3: in the default (non-strict) configuration, evaluating a function call whose
\* argument violates the function's domain returns exactly zero and leaves an error
\* message in the evaluator's last-error channel when the top-level call returns.
C3_DomainErrorReported ==
    (/\ ev_calls > 0
     /\ strict_mode = 0
     /\ strict_domain_mode = 0
     /\ DomainViolated(ev_node))
    => (ev_result = VInt(0) /\ evaluator_get_last_error # "")

----------------------------------------------------------------------------
\* C4: for all ASTs a and b, simplify(a+b) is structurally equal to simplify(b+a)
\* and simplify(a*b) to simplify(b*a), under the simplifier's own symbolic_equals.
C4_CommutativeCanonical ==
    (sym_results.first # NullNode /\ sym_results.swapped # NullNode)
    => symbolic_equals(sym_results.first, sym_results.swapped)

----------------------------------------------------------------------------
\* C5: simplification is idempotent: for every AST x the parser can produce,
\* simplify(simplify(x)) is structurally equal to simplify(x).
C5_Idempotent ==
    sym_results.again # NullNode => symbolic_equals(sym_results.again, sym_results.first)

\* a tree that simplification changed has been simplified twice
C5_Witness ==
    /\ sym_results.again # NullNode
    /\ sym_results.first # sym_tree
    /\ sym_results.first.type = "NODE_BINOP"

----------------------------------------------------------------------------
\* the addresses of the tree below a, as a set
NodeSet(m, a) == {NodeSeq(m, a)[i] : i \in 1..Len(NodeSeq(m, a))}

\* C8: simplify never modifies its input tree and the tree it returns shares no node
\* with the input: after the call the input is structurally unchanged, and freeing
\* either tree leaves the other fully valid.
C8_InputUntouchedNoAlias ==
    sym_last.which # "none" =>
        /\ NodeSet(sym_m, sym_last.in) \cap NodeSet(sym_m, sym_last.out) = {}
        /\ sym_last.in \notin sym_m.freed =>
               /\ Tree(sym_m, sym_last.in) = sym_last.arg
               /\ NodeSet(sym_m, sym_last.in) \cap sym_m.freed = {}
        /\ sym_last.out \notin sym_m.freed =>
               /\ Tree(sym_m, sym_last.out) = sym_results[sym_last.which]
               /\ NodeSet(sym_m, sym_last.out) \cap sym_m.freed = {}
        /\ ~sym_m.dfree

\* the argument of a call that rewrote it has been freed, the result is in use
C8_Witness ==
    /\ sym_last.which = "first"
    /\ sym_last.in \in sym_m.freed
    /\ sym_last.out \notin sym_m.freed
    /\ sym_results.first # sym_tree
    /\ sym_results.first.type = "NODE_BINOP"

----------------------------------------------------------------------------
\* C9: in every rewrite-rule branch each operand subtree, and each node of it, is
\* either released exactly once or incorporated exactly once into the returned tree,
\* never both, never twice and never neither; the returned tree is a strict tree
\* with no pointer into released nodes.
C9_ReleasedOrIncorporatedOnce ==
    (sym_last.which # "none" /\ sym_last.in \notin sym_m.freed
                             /\ sym_last.out \notin sym_m.freed) =>
        LET made == (sym_last.mark + 1)..Len(sym_m.heap)
            kept == NodeSeq(sym_m, sym_last.out)
        IN  /\ ~sym_m.dfree
            /\ \A i, j \in 1..Len(kept) : kept[i] = kept[j] => i = j
            /\ \A a \in made : (a \in sym_m.freed) # (a \in NodeSet(sym_m, sym_last.out))
            /\ NodeSet(sym_m, sym_last.out) \subseteq made

\* a call in which rules both released operand nodes and reused operand nodes
C9_Witness ==
    /\ sym_last.which = "first"
    /\ sym_last.in \notin sym_m.freed
    /\ sym_last.out \notin sym_m.freed
    /\ sym_m.freed # {}
    /\ Len(NodeSeq(sym_m, sym_last.out)) >= 3

----------------------------------------------------------------------------
\* C10: whenever simplification meets, anywhere in the tree, a division whose
\* simplified denominator is the literal zero, that division is replaced by the
\* literal 0 and a division-by-zero error is readable from the simplifier's
\* last-error channel when the top-level call returns.
C10_DivisionByZeroReported ==
    (sym_last.which # "none" /\ sym_m.div0 # {}) =>
        /\ \A a \in sym_m.div0 : sym_m.heap[a] = ast_create_number("0", 1)
        /\ symbolic_get_last_error # ""

----------------------------------------------------------------------------
C7_FetchedIsCached ==
    \A t \in ConstantType :
        /\ (t \in fetched) <=> constants_is_cached_by_type(t)
        /\ (t \in fetched) <=> constants_is_cached(constant_metadata[t])

----------------------------------------------------------------------------
\* the position of a node kind in the order Number < Constant < Function <
\* BinaryOp < UnaryOp
StatedKindRank(type) ==
    CASE type = "NODE_NUMBER" -> 1
      [] type = "NODE_CONSTANT" -> 2
      [] type = "NODE_FUNCTION" -> 3
      [] type = "NODE_BINOP" -> 4
      [] type = "NODE_UNARY" -> 5
      [] OTHER -> 0

\* C11: when the simplifier orders the two operands of a commutative operator that
\* have different node kinds, the operand placed on the left is the one whose kind
\* comes first in the order Number < Constant < Function < BinaryOp < UnaryOp.
C11_KindOrderAsStated ==
    (/\ sym_last.which = "first"
     /\ sym_results.first.type = "NODE_BINOP"
     /\ is_commutative(sym_results.first.op)
     /\ sym_results.first.left.type # sym_results.first.right.type)
    => StatedKindRank(sym_results.first.left.type)
           < StatedKindRank(sym_results.first.right.type)

----------------------------------------------------------------------------
\* C12: once the parser's error flag is set during a parse it is still set when the
\* top-level parse call returns, every enclosing parse function has returned null,
\* and the top-level call returns no AST.
C12_ErrorYieldsNoAst ==
    (parse_calls > 0 /\ parser_has_error # 0) => parse_result = NullNode

\* an error raised inside a nested construct, after tokens were consumed
C12_Witness ==
    /\ parse_calls > 0
    /\ parser_has_error # 0
    /\ parser.deepest >= 2
    /\ parser.pos > 3
    /\ parse_result = NullNode

----------------------------------------------------------------------------
\* the value evaluator_eval stores for node under the current modes
ValueOf(node) ==
    evaluator_eval(node, [last_error |-> "", fn_error |-> "", raised |-> FALSE,
                          fn_failed |-> FALSE, exact |-> TRUE],
                   strict_mode, strict_domain_mode).v

RECURSIVE ValuesOf(_, _)
ValuesOf(nodes, i) ==
    IF i > Len(nodes) THEN <<>> ELSE <<ValueOf(nodes[i])>> \o ValuesOf(nodes, i + 1)

\* the evaluation of node raises an error at node itself: a division by a zero
\* operand, an unknown constant, an unknown operator or a failed function call
RaisesAt(node) ==
    CASE node.type = "NODE_CONSTANT" -> ~constants_known(node.name)
      [] node.type = "NODE_BINOP" ->
            ApplyBinop(node.op, ValueOf(node.left), ValueOf(node.right)).err # ""
      [] node.type = "NODE_UNARY" -> ~token_is_unary_op(node.op)
      [] node.type = "NODE_FUNCTION" ->
            functions_eval(node.func_type, ValuesOf(node.args, 1),
                           strict_domain_mode).success = 0
      [] OTHER -> FALSE

RECURSIVE Subtrees(_)
Subtrees(node) ==
    {node} \cup
    CASE node.type = "NODE_BINOP" -> Subtrees(node.left) \cup Subtrees(node.right)
      [] node.type = "NODE_UNARY" -> Subtrees(node.operand)
      [] node.type = "NODE_FUNCTION" ->
            UNION {Subtrees(node.args[i]) : i \in 1..Len(node.args)}
      [] OTHER -> {}

\* node with every failing node replaced by the literal 0
RECURSIVE ZeroFailing(_)
ZeroFailing(node) ==
    IF RaisesAt(node) THEN Num(RInt(0), 1)
    ELSE CASE node.type = "NODE_BINOP" ->
                BinOp(node.op, ZeroFailing(node.left), ZeroFailing(node.right))
           [] node.type = "NODE_UNARY" -> Unary(node.op, ZeroFailing(node.operand))
           [] node.type = "NODE_FUNCTION" ->
                Func(node.func_type,
                     [i \in 1..Len(node.args) |-> ZeroFailing(node.args[i])])
           [] OTHER -> node

\* C13: a node whose evaluation raises an error (division by a zero operand, unknown
\* constant, domain violation) evaluates to exactly zero, never infinity or NaN, and
\* the rest of the tree is still evaluated: the overall result equals the value of
\* the same tree with the failing node replaced by the literal 0.
C13_FailingNodeIsZero ==
    ev_calls > 0 =>
        /\ \A n \in Subtrees(ev_node) : RaisesAt(n) => ValueOf(n) = VInt(0)
        /\ ev_result = ValueOf(ZeroFailing(ev_node))

----------------------------------------------------------------------------
\* node is a call of a function with a restricted domain whose argument, as
\* evaluated under the current modes, is a number outside the domain
DomainViolatedNow(node) ==
    /\ node.type = "NODE_FUNCTION"
    /\ node.func_type \in DomainFuncs
    /\ Len(node.args) = 1
    /\ ValueOf(node.args[1]).k = "fin"
    /\ functions_check_domain(node.func_type, <<ValueOf(node.args[1])>>)

\* C14: Function Dispatch never returns NaN for a domain violation: with strict mode
\* enabled the call reports a domain error (failure status together with an error
\* message), and with strict mode disabled it returns the default value zero with an
\* error message recorded.
C14_DomainViolationNeverNaN ==
    (ev_calls > 0 /\ DomainViolatedNow(ev_node)) =>
        /\ ev_result.k # "nan"
        /\ ev_fn_failed
        /\ fn_last_error # ""
        /\ strict_domain_mode = 0 => ev_result = VInt(0)


----------------------------------------------------------------------------
\* the characters the lexer knows: digits, letters, '_', '.', white space and
\* the characters of its operators
KnownChar(c) ==
    \/ isalnum(c) \/ isspace(c)
    \/ c \in {"_", ".", "+", "-", "*", "/", "^", "(", ")", ",", "=", "!", "<", ">"}

HasUnknownChar(text) == \E i \in 1..Len(text) : ~KnownChar(text[i])

\* two decimal points with nothing but digits between them
HasSecondPoint(text) ==
    \E i, j \in 1..Len(text) :
        /\ i < j
        /\ text[i] = "." /\ text[j] = "."
        /\ \A k \in (i + 1)..(j - 1) : isdigit(text[k])

\* a '.' with no digit on either side
HasLonePoint(text) ==
    \E i \in 1..Len(text) :
        /\ text[i] = "."
        /\ i = 1 \/ ~isdigit(text[i - 1])
        /\ i = Len(text) \/ ~isdigit(text[i + 1])

\* a number (digits with at most one '.', not the tail of an identifier), then
\* 'e' or 'E', then a sign that no digit follows
HasDanglingExponent(text) ==
    \E s, i \in 1..Len(text) :
        /\ s < i
        /\ s = 1 \/ ~(isalnum(text[s - 1]) \/ text[s - 1] \in {"_", "."})
        /\ \A k \in s..(i - 1) : isdigit(text[k]) \/ text[k] = "."
        /\ \E k \in s..(i - 1) : isdigit(text[k])
        /\ ~HasSecondPoint(SubSeq(text, s, i - 1))
        /\ text[i] \in {"e", "E"}
        /\ i < Len(text) /\ text[i + 1] \in {"+", "-"}
        /\ i + 1 = Len(text) \/ ~isdigit(text[i + 2])

HasInvalidToken == \E k \in 1..Len(lex_tokens) : lex_tokens[k].type = "TOKEN_INVALID"

\* C15: once a text has been lexed to its end, the tokens include a TOKEN_INVALID
\* if the text holds an unknown character, a number with a second decimal point,
\* a number with a dangling exponent sign (as in 1e+), or a lone '.'
C15_MalformedYieldsInvalid ==
    (/\ LexDone
     /\ \/ HasUnknownChar(lexer.text)
        \/ HasSecondPoint(lexer.text)
        \/ HasDanglingExponent(lexer.text)
        \/ HasLonePoint(lexer.text))
    => HasInvalidToken


\* digits, with at most one '.' among them and at least one digit
IsMantissa(chars) ==
    /\ \A i \in 1..Len(chars) : isdigit(chars[i]) \/ chars[i] = "."
    /\ \E i \in 1..Len(chars) : isdigit(chars[i])
    /\ Cardinality({i \in 1..Len(chars) : chars[i] = "."}) <= 1

\* an optional sign and at least one digit
IsExponent(chars) ==
    LET d == IF chars # <<>> /\ chars[1] \in {"+", "-"} THEN Tail(chars) ELSE chars
    IN  d # <<>> /\ \A i \in 1..Len(d) : isdigit(d[i])

\* text is one numeric literal: a mantissa, then optionally 'e' or 'E' and an exponent
IsNumericLiteral(text) ==
    /\ IsMantissa(Before(text, {"e", "E"}))
    /\ \/ FirstIn(text, {"e", "E"}) = Len(text) + 1
       \/ IsExponent(After(text, {"e", "E"}))

\* C16: for a text that is one numeric literal, the lexer hands out exactly one
\* numeric token, whose string is the literal character for character, and then
\* TOKEN_EOF; the parser's result is the Number node built from that string
C16_LiteralIsOneTokenVerbatim ==
    (LexDone /\ IsNumericLiteral(lexer.text)) =>
        /\ Len(lex_tokens) = 2
        /\ lex_tokens[1].type \in {"TOKEN_INT", "TOKEN_FLOAT"}
        /\ lex_tokens[1].text = Cat(lexer.text)
        /\ parse_calls = 1 =>
               parse_result = ast_create_number(Cat(lexer.text),
                                  IF lex_tokens[1].type = "TOKEN_INT" THEN 1 ELSE 0)


----------------------------------------------------------------------------
\* the kinds of token the statement of the implicit multiplication names
IsNumberToken(type) == type \in {"TOKEN_INT", "TOKEN_FLOAT"}

\* the stated pairs: number then '('; ')' then '('; ')' then number; number then
\* number; number then function; ')' then function; number or ')' then
\* constant; constant then number or '('
StatedImplicitPair(prev, curr) ==
    \/ IsNumberToken(prev) /\ curr = "TOKEN_LPAREN"
    \/ prev = "TOKEN_RPAREN" /\ curr = "TOKEN_LPAREN"
    \/ prev = "TOKEN_RPAREN" /\ IsNumberToken(curr)
    \/ IsNumberToken(prev) /\ IsNumberToken(curr)
    \/ IsNumberToken(prev) /\ token_is_function(curr)
    \/ prev = "TOKEN_RPAREN" /\ token_is_function(curr)
    \/ (IsNumberToken(prev) \/ prev = "TOKEN_RPAREN") /\ curr = "TOKEN_CONSTANT"
    \/ prev = "TOKEN_CONSTANT" /\ (IsNumberToken(curr) \/ curr = "TOKEN_LPAREN")

\* C17: the multiplicative loop synthesizes a '*' between the previous and the
\* current token exactly when they form one of the stated pairs: every pair at
\* which it inserted one is stated, and no pair at which it ended is
C17_ImplicitMultiplicationPairs ==
    parse_calls > 0 =>
        /\ \A pr \in parser.inserted : StatedImplicitPair(pr[1], pr[2])
        /\ \A pr \in parser.declined : ~StatedImplicitPair(pr[1], pr[2])

\* "2 pi 2" and the like: a parse that inserted a '*' at two different pairs,
\* ended its loop at a third, and returned a product
C17_Witness ==
    /\ parse_calls > 0
    /\ parser_has_error = 0
    /\ Cardinality(parser.inserted) >= 2
    /\ parser.declined # {}
    /\ \A i \in 1..Len(parser.tokens) : parser.tokens[i].type # "TOKEN_STAR"
    /\ parse_result.type = "NODE_BINOP" /\ parse_result.op = "TOKEN_STAR"


----------------------------------------------------------------------------
\* the node of the call f(2, ..., 2) with k arguments
CallNode(f, k) == Func(f, [i \in 1..k |-> ast_create_number("2", 1)])

\* C18: a function name followed by k comma-separated arguments, with or without
\* the '(' and the ')', parses to the call's node exactly when both parentheses
\* are there and k is the function's declared arity; in every other case the
\* error flag is set and no AST is returned.  Every function node of a returned
\* AST has the declared number of arguments.
C18_CallNeedsParensAndArity ==
    parse_calls > 0 =>
        /\ \A f \in CallFunctions, lp \in BOOLEAN, k \in CallArgCounts, rp \in BOOLEAN :
               parser.tokens = CallTokens(f, lp, k, rp) =>
                   IF lp /\ rp /\ k = function_table_get_arg_count(f)
                   THEN parser_has_error = 0 /\ parse_result = CallNode(f, k)
                   ELSE parser_has_error # 0 /\ parse_result = NullNode
        /\ parse_result # NullNode =>
               \A n \in Subtrees(parse_result) :
                   n.type = "NODE_FUNCTION" =>
                       Len(n.args) = function_table_get_arg_count(n.func_type)

\* pow(2): one argument where two are declared; the flag is set, no AST
C18_Witness ==
    /\ parse_calls > 0
    /\ parser.tokens = CallTokens("TOKEN_POW", TRUE, 1, TRUE)
    /\ parser_has_error # 0
    /\ parse_result = NullNode


----------------------------------------------------------------------------
\* the operator a chain writes between two operands, and the stated level of
\* its precedence: comparison 1, additive 2, multiplicative (explicit and
\* implicit) 3, power 4
ChainOp(o) == IF o = <<>> THEN "TOKEN_STAR" ELSE o[1].type

StatedLevel(o) ==
    CASE ChainOp(o) \in {"TOKEN_LT", "TOKEN_EQ"} -> 1
      [] ChainOp(o) \in {"TOKEN_PLUS", "TOKEN_MINUS"} -> 2
      [] ChainOp(o) \in {"TOKEN_STAR", "TOKEN_SLASH"} -> 3
      [] ChainOp(o) = "TOKEN_CARET" -> 4

NumberOf(tok) == ast_create_number(tok.text, 1)

\* (a o1 b) o2 c
GroupedLeft(a, o1, b, o2, c) == BinOp(ChainOp(o2), BinOp(ChainOp(o1), a, b), c)

\* a o1 (b o2 c)
GroupedRight(a, o1, b, o2, c) == BinOp(ChainOp(o1), a, BinOp(ChainOp(o2), b, c))

Negated(node) == Unary("TOKEN_MINUS", node)

\* the tree stated for [-] a o1 b o2 c when the two operators are of different
\* levels, and for the two parenthesized shapes: the sign belongs to the primary
\* after it, a parenthesis is one operand, and the operator of the tighter level
\* takes its operands first
StatedPrecedenceTree(x, o1, o2, shape, sign) ==
    LET a == NumberOf(x[1])
        b == NumberOf(x[2])
        c == NumberOf(x[3])
        first == IF sign THEN Negated(a) ELSE a
    IN  CASE shape = "left" ->
                BinOp(ChainOp(o2),
                      IF sign THEN Negated(BinOp(ChainOp(o1), a, b))
                      ELSE BinOp(ChainOp(o1), a, b),
                      c)
          [] shape = "right" -> GroupedRight(first, o1, b, o2, c)
          [] shape = "flat" /\ StatedLevel(o1) < StatedLevel(o2) ->
                GroupedRight(first, o1, b, o2, c)
          [] shape = "flat" /\ StatedLevel(o1) > StatedLevel(o2) ->
                GroupedLeft(first, o1, b, o2, c)

\* C19: the operators bind by level, loosest to tightest: comparison, additive,
\* multiplicative (explicit and implicit), power, unary prefix, primary.  A chain
\* [-] a o1 b o2 c of two operators of different levels, with or without
\* parentheses around one of the two operations, parses to the tree in which the
\* tighter level is grouped first: a + b * c has root '+' and right child '*'.
C19_PrecedenceLevels ==
    parse_calls > 0 =>
        \A x \in ChainOperands, o1 \in ChainOps, o2 \in ChainOps,
           shape \in ChainShapes, sign \in BOOLEAN :
            (/\ parser.tokens = ChainTokens(x, o1, o2, shape, sign)
             /\ shape # "flat" \/ StatedLevel(o1) # StatedLevel(o2))
            => /\ parser_has_error = 0
               /\ parse_result = StatedPrecedenceTree(x, o1, o2, shape, sign)

\* 5 + 3 * 1 has been parsed: the root is '+' and its right child is '*'
C19_Witness ==
    /\ parse_calls > 0
    /\ parser.tokens = ChainTokens(<<Tok("TOKEN_INT", "5"), Tok("TOKEN_INT", "3"),
                                     Tok("TOKEN_INT", "1")>>,
                                   <<Tok("TOKEN_PLUS", "")>>, <<Tok("TOKEN_STAR", "")>>,
                                   "flat", FALSE)
    /\ parse_result.type = "NODE_BINOP" /\ parse_result.op = "TOKEN_PLUS"
    /\ parse_result.right.type = "NODE_BINOP" /\ parse_result.right.op = "TOKEN_STAR"


----------------------------------------------------------------------------
\* the chain 5 - 3 - 1 and the chain 2 ^ 3 ^ 2
FiveMinusThreeMinusOne ==
    ChainTokens(<<Tok("TOKEN_INT", "5"), Tok("TOKEN_INT", "3"), Tok("TOKEN_INT", "1")>>,
                <<Tok("TOKEN_MINUS", "")>>, <<Tok("TOKEN_MINUS", "")>>, "flat", FALSE)

TwoToThreeToTwo ==
    ChainTokens(<<Tok("TOKEN_INT", "2"), Tok("TOKEN_INT", "3"), Tok("TOKEN_INT", "2")>>,
                <<Tok("TOKEN_CARET", "")>>, <<Tok("TOKEN_CARET", "")>>, "flat", FALSE)

\* C20: '^' groups to the right and the comparison, additive and multiplicative
\* operators (the implicit multiplication included) group to the left: a chain
\* [-] a o1 b o2 c of two operators of one level parses to a ^ (b ^ c) for the
\* power and to (a o1 b) o2 c otherwise.  5 - 3 - 1 evaluates to 1, and
\* 2 ^ 3 ^ 2 is the power of base 2 and exponent 3 ^ 2 = 9, which is 512.
C20_Associativity ==
    parse_calls > 0 =>
        /\ \A x \in ChainOperands, o1 \in ChainOps, o2 \in ChainOps, sign \in BOOLEAN :
               (/\ parser.tokens = ChainTokens(x, o1, o2, "flat", sign)
                /\ StatedLevel(o1) = StatedLevel(o2))
               => /\ parser_has_error = 0
                  /\ parse_result =
                        IF ChainOp(o1) = "TOKEN_CARET"
                        THEN GroupedRight(IF sign THEN Negated(NumberOf(x[1]))
                                          ELSE NumberOf(x[1]),
                                          o1, NumberOf(x[2]), o2, NumberOf(x[3]))
                        ELSE GroupedLeft(IF sign THEN Negated(NumberOf(x[1]))
                                         ELSE NumberOf(x[1]),
                                         o1, NumberOf(x[2]), o2, NumberOf(x[3]))
        /\ parser.tokens = FiveMinusThreeMinusOne => ValueOf(parse_result) = VInt(1)
        /\ parser.tokens = TwoToThreeToTwo =>
               /\ ValueOf(parse_result.left) = VInt(2)
               /\ ValueOf(parse_result.right) = VInt(9)

\* 2 ^ 3 ^ 2 has been parsed: the root is '^' and so is its right child
C20_Witness ==
    /\ parse_calls > 0
    /\ parser.tokens = TwoToThreeToTwo
    /\ parse_result.type = "NODE_BINOP" /\ parse_result.op = "TOKEN_CARET"
    /\ parse_result.left = ast_create_number("2", 1)
    /\ parse_result.right = BinOp("TOKEN_CARET", ast_create_number("3", 1),
                                  ast_create_number("2", 1))

----------------------------------------------------------------------------
(* C21: square roots of integer literals                                    *)

\* m has no perfect-square factor greater than 1
SquareFree(m) == \A i \in 2..m : m % (i * i) # 0

\* the radicand of the tree handed to the simplifier
Radicand == sym_tree.args[1].value.n

\* the result is the integer literal r
IsIntegerResult(out, r) == out.type = "NODE_NUMBER" /\ out.value = RInt(r)

\* the result is k*sqrt(m) with k > 1, k*k*m = n and m square-free
IsExtractedRoot(out, n) ==
    /\ out.type = "NODE_BINOP" /\ out.op = "TOKEN_STAR"
    /\ out.left.type = "NODE_NUMBER" /\ out.left.value.d = 1 /\ out.left.value.n > 1
    /\ IsSqrt(out.right) /\ Len(out.right.args) = 1
    /\ out.right.args[1].type = "NODE_NUMBER" /\ out.right.args[1].value.d = 1
    /\ out.left.value.n * out.left.value.n * out.right.args[1].value.n = n
    /\ SquareFree(out.right.args[1].value.n)

\* C21: for every positive integer literal n, simplify(sqrt(n)) is the integer r
\* when n = r*r; is k*sqrt(m) with k > 1, k*k*m = n and m square-free when n is
\* not a perfect square but has a square factor; and is sqrt(n) unchanged otherwise.
C21_SqrtOfIntegerLiteral ==
    (IsSqrt(sym_tree) /\ sym_results.first # NullNode) =>
        IF IsSquare(Radicand) THEN IsIntegerResult(sym_results.first, ISqrt(Radicand))
        ELSE IF largest_root(Radicand) > 1 THEN IsExtractedRoot(sym_results.first, Radicand)
        ELSE sym_results.first = sym_tree

\* the same statement for literals simplified under the default precision
C21_AtDefaultPrecision == global_precision = DEFAULT_PRECISION => C21_SqrtOfIntegerLiteral

----------------------------------------------------------------------------
(* C22: the precision setting                                               *)

\* b clamped into [2, 8192], as the claim states it
StatedClamp(b) == IF b < 2 THEN 2 ELSE IF b > 8192 THEN 8192 ELSE b

----------------------------------------------------------------------------
(* C23: the depth counter                                                   *)

\* C23: every invocation of a grammar-level parse function, each recursive one
\* included, increments the shared depth counter on entry and decrements it on
\* every exit path: the counter equals the number of invocations in progress (so
\* that, with the top-level call and every open re-entry of the grammar counted,
\* it has reached at least 1 + deepest), and it is back at its starting value when
\* the top-level call returns.
C23_DepthCounterCountsInvocations ==
    parse_calls > 0 =>
        /\ parser.recursion_depth = 0
        /\ parser.counted > 0 => parser.counted >= 1 + parser.deepest

\* the half of the statement that the wrapper guarantees: the counter is back at
\* its starting value when the top-level call returns
C23_CounterRestored == parse_calls > 0 => parser.recursion_depth = 0

----------------------------------------------------------------------------
(* C24: token payloads                                                      *)

\* how often the payload id was passed to free()
Releases(id) == Cardinality({i \in 1..Len(parser.frees) : parser.frees[i] = id})

\* C24: every token payload the lexer allocated (a number's string, the text of an
\* identifier or a constant) is released exactly once, when it is superseded as
\* the parser's previous token or discarded at the end of parsing, and is never
\* read after its release.
C24_PayloadReleasedOnce ==
    parse_calls > 0 =>
        /\ \A id \in parser.allocated : Releases(id) = 1
        /\ ~parser.read_freed

\* the part that holds: no payload is released twice or read after its release,
\* and the only payloads not released are those of the last two tokens
C24_NoDoubleReleaseNoStaleRead ==
    /\ \A id \in parser.allocated :
          /\ Releases(id) <= 1
          /\ Releases(id) = 0 => id \in {parser.prev_payload, parser.cur_payload}
    /\ ~parser.read_freed

----------------------------------------------------------------------------
(* C25: the nodes of a failed parse                                         *)

\* the top-level call has returned and the parse has failed
ParseFailed == parse_calls > 0 /\ (parse_result = NullNode \/ parser.error_occurred # 0)

\* C25: when a parse fails, every AST node and argument array allocated during
\* that parse has been released by the time the top-level call returns.
C25_FailedParseReleasesNodes == ParseFailed => parser.released = parser.made

\* a parse has failed inside the second argument of a call, after a first argument
\* and the argument array were allocated, and all of it has been released
C25_Witness ==
    /\ ParseFailed
    /\ parser.made >= 3
    /\ parser.released = parser.made
    /\ parser.tokens[1].type = "TOKEN_ATAN2"

\* a parse that succeeds hands back exactly the blocks still allocated
C25_SuccessOwnsTheRest ==
    (parse_calls > 0 /\ ~ParseFailed) => parser.made - parser.released = Blocks(parse_result)

----------------------------------------------------------------------------
(* C26: leftover tokens                                                     *)

\* the test every host makes after the call (repl.c:132-151, test_parser.c:29):
\* an AST, no error flag, and the current token is TOKEN_EOF
HostAccepts ==
    /\ parse_calls > 0
    /\ parse_result # NullNode
    /\ parser_has_error = 0
    /\ parser.current_token.type = "TOKEN_EOF"

\* C26: whenever the top-level parse returns an AST with the error flag clear, the
\* whole input has been consumed (the current token is EOF): leftover tokens such
\* as an unmatched ')' or two adjacent constants are never reported as a success.
C26_SuccessMeansConsumed ==
    (parse_calls > 0 /\ parse_result # NullNode /\ parser_has_error = 0) =>
        /\ parser.current_token.type = "TOKEN_EOF"
        /\ parser.pos > Len(parser.tokens)

\* some ')' of the token sequence has no '(' before it to match
UnmatchedClose(ts) ==
    \E n \in 1..Len(ts) :
        Cardinality({i \in 1..n : ts[i].type = "TOKEN_RPAREN"})
            > Cardinality({i \in 1..n : ts[i].type = "TOKEN_LPAREN"})

\* two constants stand next to each other
AdjacentConstants(ts) ==
    \E i \in 1..(Len(ts) - 1) : token_is_constant(ts[i].type) /\ token_is_constant(ts[i + 1].type)

\* what does hold: with the hosts' additional test for TOKEN_EOF an input with such
\* leftover tokens is never accepted, and an accepted input has been read to its end
C26_HostsRejectLeftovers ==
    /\ HostAccepts => parser.pos > Len(parser.tokens)
    /\ (UnmatchedClose(parser.tokens) \/ AdjacentConstants(parser.tokens)) => ~HostAccepts

----------------------------------------------------------------------------
(* C27: termination of the parse                                            *)

\* C27: every top-level parse call terminates on every input within the length
\* limit, after at most one lexer call per input character plus one; no loop
\* repeats without consuming input or failing, implicit multiplication included.
C27_ParseTerminates ==
    /\ <>(parse_calls > 0)
    /\ [](parse_calls > 0 =>
            /\ parser.lexer_calls <= lexer.input_length + 1
            /\ ~parser.stalled)

\* a parse has returned after inserting a multiplication and reading every token
C27_Witness ==
    /\ parse_calls > 0
    /\ parser.inserted # {}
    /\ parser.lexer_calls = Len(parser.tokens) + 1
    /\ lexer.input_length > 0

----------------------------------------------------------------------------
(* C28: simplification and the numeric value                                *)

\* evaluator_eval(result, node) by a host that has evaluated nothing before
EvalOf(node) ==
    evaluator_eval(node, [last_error |-> "", fn_error |-> "", raised |-> FALSE,
                          fn_failed |-> FALSE, exact |-> TRUE],
                   strict_mode, strict_domain_mode)

\* both values are represented exactly in the model and differ
DifferentValue(a, b) == a.k # "irr" /\ b.k # "irr" /\ a # b

\* C28: simplification preserves the numeric value: for every expression x whose
\* evaluation records no error, evaluating simplify(x) at the same precision
\* records no error and yields the same value as evaluating x.
C28_SimplifyPreservesValue ==
    (sym_results.first # NullNode /\ EvalOf(sym_tree).st.last_error = "") =>
        /\ EvalOf(sym_results.first).st.last_error = ""
        /\ ~DifferentValue(EvalOf(sym_tree).v, EvalOf(sym_results.first).v)

\* ---------------------------------------------------------------------------
\* C29: every top-level simplify call terminates
\* ---------------------------------------------------------------------------

\* the binary-operator and function nodes of a tree: the nodes at which
\* symbolic_eval invokes a rule set on its way up
RECURSIVE RuleNodes(_)
RuleNodes(node) ==
    CASE node.type = "NODE_BINOP" -> 1 + RuleNodes(node.left) + RuleNodes(node.right)
      [] node.type = "NODE_UNARY" -> RuleNodes(node.operand)
      [] node.type = "NODE_FUNCTION" -> 1 + RuleNodes(node.args[1])
      [] OTHER -> 0

\* C29: a top-level call of symbolic_eval on a finite tree returns: the rules
\* that re-invoke the simplifier on operands they have built (like-term
\* collection, distribution of a division, cancellation, rationalization, the
\* merge of two square roots) stop after fewer than MaxSimplifyCalls
\* invocations, so that no invocation is ever cut off
C29_SimplifyTerminates ==
    sym_last.which # "none" => ~sym_m.cut /\ sym_m.calls < MaxSimplifyCalls

\* a call has returned in which the rules re-invoked the simplifier more than
\* three times for each operator and function node of its argument
C29_Witness ==
    /\ sym_last.which = "first"
    /\ sym_last.out # NULL
    /\ ~sym_m.cut
    /\ sym_m.calls > 3 * RuleNodes(sym_last.arg)

\* ---------------------------------------------------------------------------
\* C30: every Rational is kept in lowest terms with a positive denominator
\* ---------------------------------------------------------------------------

\* denominator > 0 and no k > 1 divides both members; for a numerator of 0 this
\* leaves the denominator 1 only
LowestTerms(r) ==
    /\ r.denominator > 0
    /\ \A k \in 2..r.denominator :
           ~(AbsInt(r.numerator) % k = 0 /\ r.denominator % k = 0)
    /\ r.numerator = 0 => r.denominator = 1

\* C30: every Rational that rational_init, rational_init_from_int or
\* rational_set_from_int created from a non-zero denominator, and every result
\* of rational_add, rational_sub, rational_mul, rational_neg, rational_set and
\* rational_div (by a non-zero divisor) on such values, has a denominator > 0
\* and gcd(|numerator|, denominator) = 1, zero being stored as 0/1
C30_RationalNormalised ==
    /\ \A x \in RatSlots : Initialised(x) => LowestTerms(rat[x])
    /\ rat_last.op \notin {"none", "rational_clear"} => LowestTerms(rat[rat_last.slot])

\* rational_div has computed a quotient whose members had a common factor and
\* whose denominator was negative, and has stored a proper fraction
C30_Witness ==
    /\ rat_last.op = "rational_div"
    /\ rat_last.raw.denominator < 0
    /\ mpz_gcd(rat_last.raw.numerator, rat_last.raw.denominator) > 1
    /\ rat[rat_last.slot].denominator > 1
    /\ rat[rat_last.slot].numerator < 0


============================================================================
